---- MODULE Spec2Model ----
(***************************************************************************)
(* Chemical risk engine (AI_engine): text normalisation, the flammability, *)
(* toxicity and incompatibility rules, the weighted HSE score, the         *)
(* environmental adjustment and the analyze_risk pipeline.                 *)
(*                                                                         *)
(* Numbers.  Category scores are integers.  Global scores are kept in      *)
(* twentieths of a point, which represents every weighted sum              *)
(* 0.20*i + 0.35*t + 0.45*c of integer scores exactly.  Temperatures and   *)
(* humidities are integers, flash points are in hundredths of a degree.    *)
(* The source computes in binary floating point; the model computes the    *)
(* same expressions exactly.                                               *)
(* Text is TLA+ strings handled character by character.                    *)
(***************************************************************************)
EXTENDS Integers, Sequences, FiniteSets, TLC

VARIABLES
    pc,                  \* position in analyze_risk, or "call"/"returned" of a rule function
    arg,                 \* argument of the rule function under evaluation
    ret,                 \* value returned by the rule function
    input_data,          \* the request given to analyze_risk
    substances_db,       \* load_substances(): sequence of substance records
    incompatibilities_db,\* load_incompatibilities(): sequence of records
    placeholders,        \* default substances created for unknown names
    found_substances,    \* references to the resolved substance objects
    quantite,            \* the 'quantite' key written on each substance object
    evaluations,         \* per-substance inflammability / toxicity results
    category_scores,   \* the three category scores given to the aggregation
    detected_incomp,     \* check_multiple_incompatibilities() result
    dangerous,           \* is_dangerous_reaction_detected, dangerous_reaction_info
    global_result,       \* calculate_global_risk_score() result
    final_score,         \* score after the environmental stage
    result               \* the dict returned by analyze_risk

vars == <<pc, arg, ret, input_data, substances_db, incompatibilities_db,
          placeholders, found_substances, quantite, evaluations,
          category_scores, detected_incomp, dangerous, global_result, final_score, result>>

-----------------------------------------------------------------------------
(* Bounds of the model *)

MaxSubstances == 2      \* longest substance list of a request
MaxTemp == 70           \* hottest laboratory temperature of a request
FlashBelowZero == 5     \* the coldest flash point is this many degrees below zero
MaxFlash == 110         \* hottest flash point, in degrees
MaxFragment == 4        \* longest fragment of a level name used as a label
MaxNameLen == 4         \* longest name given to the normalisation functions

\* a whole number of points as a global score (twentieths of a point)
Points(n) == 20 * n

-----------------------------------------------------------------------------
(* Python values *)

None == "<None>"
NoneNum == [tag |-> "none", v |-> 0]
Num(n) == [tag |-> "num", v |-> n]
Unparsable == [tag |-> "str", v |-> 0]

Min(a, b) == IF a < b THEN a ELSE b
Max(a, b) == IF a > b THEN a ELSE b

\* the scores added up instead of the largest one taken
RECURSIVE SeqMax_sum(_)
SeqMax_sum(s) == IF Len(s) = 1 THEN s[1] ELSE s[1] + SeqMax_sum(Tail(s))

RECURSIVE SeqMax(_)
SeqMax(s) == IF Len(s) = 1 THEN s[1] ELSE Max(s[1], SeqMax(Tail(s)))

-----------------------------------------------------------------------------
(* utils/processor.py *)

CharAt(s, i) == SubSeq(s, i, i)

Chars(alphabet) == {CharAt(alphabet, i) : i \in 1..Len(alphabet)}

\* the character table sending the i-th character of from to the i-th of to
Table(from, to) ==
    [c \in Chars(from) |->
        CharAt(to, CHOOSE i \in 1..Len(from) : CharAt(from, i) = c)]

UpperLetters == "ABCDEFGHIJKLMNOPQRSTUVWXYZÉÈ"
LowerLetters == "abcdefghijklmnopqrstuvwxyzéè"
AccentedLetters == "éèÉÈ"
BaseLetters == "eeEE"
Digits == "0123456789"

ToLower == Table(UpperLetters, LowerLetters)
ToUpper == Table(LowerLetters, UpperLetters)
ToBase == Table(AccentedLetters, BaseLetters)
WordChars == Chars(UpperLetters) \cup Chars(LowerLetters) \cup Chars(Digits) \cup {"_"}

Translate(c, table) == IF c \in DOMAIN table THEN table[c] ELSE c

RECURSIVE TranslateFrom(_, _, _)
TranslateFrom(s, i, table) ==
    IF i > Len(s) THEN ""
    ELSE Translate(CharAt(s, i), table) \o TranslateFrom(s, i + 1, table)

lower(s) == TranslateFrom(s, 1, ToLower)
upper(s) == TranslateFrom(s, 1, ToUpper)

\* NFD decomposition, then the combining marks dropped
remove_accents(text) == TranslateFrom(text, 1, ToBase)

\* re.sub(r'\s+', ' ', text)
RECURSIVE CollapseFrom(_, _)
CollapseFrom(s, i) ==
    IF i > Len(s) THEN ""
    ELSE IF CharAt(s, i) = " " /\ i > 1 /\ CharAt(s, i - 1) = " "
         THEN CollapseFrom(s, i + 1)
         ELSE CharAt(s, i) \o CollapseFrom(s, i + 1)

collapse_spaces(s) == CollapseFrom(s, 1)

RECURSIVE lstrip(_)
lstrip(s) == IF Len(s) > 0 /\ CharAt(s, 1) = " " THEN lstrip(SubSeq(s, 2, Len(s))) ELSE s

RECURSIVE rstrip(_)
rstrip(s) ==
    IF Len(s) > 0 /\ CharAt(s, Len(s)) = " " THEN rstrip(SubSeq(s, 1, Len(s) - 1)) ELSE s

strip(s) == rstrip(lstrip(s))

\* str.replace(old, new) for a one-character old
RECURSIVE ReplaceFrom(_, _, _, _)
ReplaceFrom(s, i, old, new) ==
    IF i > Len(s) THEN ""
    ELSE (IF CharAt(s, i) = old THEN new ELSE CharAt(s, i)) \o ReplaceFrom(s, i + 1, old, new)

replace(s, old, new) == ReplaceFrom(s, 1, old, new)

\* Python's  sub in s
Contains(sub, s) ==
    \E i \in 1..(Len(s) - Len(sub) + 1) : SubSeq(s, i, i + Len(sub) - 1) = sub

normalize_text(text) ==
    IF text = None \/ text = "" THEN ""
    ELSE strip(collapse_spaces(remove_accents(lower(text))))

\* the characters matched by \w
IsWordChar(c) == c \in WordChars

\* re.sub(r'[^\w\s-]', ' ', name)
RECURSIVE BlankSpecialsFrom(_, _)
BlankSpecialsFrom(s, i) ==
    IF i > Len(s) THEN ""
    ELSE (IF IsWordChar(CharAt(s, i)) \/ CharAt(s, i) = " " \/ CharAt(s, i) = "-"
          THEN CharAt(s, i) ELSE " ") \o BlankSpecialsFrom(s, i + 1)

\* the separators blanked and nothing tidied up afterwards
standardize_chemical_name_untidied(name) ==
    IF name = None \/ name = "" THEN ""
    ELSE replace(BlankSpecialsFrom(normalize_text(name), 1), "-", " ")

standardize_chemical_name(name) ==
    IF name = None \/ name = "" THEN ""
    ELSE strip(collapse_spaces(replace(BlankSpecialsFrom(normalize_text(name), 1), "-", " ")))

clean_input(text) ==
    IF text = None \/ text = "" THEN "" ELSE normalize_text(text)

RECURSIVE CountAlnumFrom(_, _)
CountAlnumFrom(s, i) ==
    IF i > Len(s) THEN 0
    ELSE (IF IsWordChar(CharAt(s, i)) /\ CharAt(s, i) # "_" THEN 1 ELSE 0)
         + CountAlnumFrom(s, i + 1)

is_valid_chemical_name(name) ==
    IF name = None \/ name = "" THEN FALSE
    ELSE CountAlnumFrom(clean_input(name), 1) >= 2

-----------------------------------------------------------------------------
(* config/settings.py *)

RISK_LEVEL_THRESHOLDS == [FAIBLE |-> 0, MOYEN |-> 40, ELEVE |-> 70]

\* in twentieths: 0.35, 0.40, 0.25
CATEGORY_WEIGHTS == [inflammabilite |-> 7, toxicite |-> 8, incompatibilites |-> 5]

FLASH_POINT_THRESHOLDS == [TRES_INFLAMMABLE |-> 23, INFLAMMABLE |-> 60, PEU_INFLAMMABLE |-> 100]

INFLAMMABILITY_SCORES ==
    [TRES_INFLAMMABLE |-> 90, INFLAMMABLE |-> 60, PEU_INFLAMMABLE |-> 20, NON_INFLAMMABLE |-> 0]

\* the keys in the order the dict lists them
TOXICITY_LEVELS ==
    <<"TRES_TOXIQUE", "TOXIQUE", "NOCIF", "IRRITANT", "PEU_TOXIQUE", "NON_TOXIQUE">>

TOXICITY_SCORES ==
    [TRES_TOXIQUE |-> 95, TOXIQUE |-> 70, NOCIF |-> 45, IRRITANT |-> 25,
     PEU_TOXIQUE |-> 10, NON_TOXIQUE |-> 0]

INCOMPATIBILITY_BASE_SCORE == 30
MAX_INCOMPATIBILITY_SCORE == 100
SEVERE_INCOMPATIBILITY_MULTIPLIER == 2
DEFAULT_TOXICITY_LEVEL == "NOCIF"

-----------------------------------------------------------------------------
(* rules/inflammabilite.py *)

\* the bands taken as upper-inclusive
classify_by_flash_point_inclusive(flash_point) ==
    IF flash_point.tag = "none" THEN "NON_INFLAMMABLE"
    ELSE IF flash_point.tag = "str" THEN "NON_INFLAMMABLE"
    ELSE IF flash_point.v <= 100 * FLASH_POINT_THRESHOLDS.TRES_INFLAMMABLE THEN "TRES_INFLAMMABLE"
    ELSE IF flash_point.v <= 100 * FLASH_POINT_THRESHOLDS.INFLAMMABLE THEN "INFLAMMABLE"
    ELSE IF flash_point.v <= 100 * FLASH_POINT_THRESHOLDS.PEU_INFLAMMABLE THEN "PEU_INFLAMMABLE"
    ELSE "NON_INFLAMMABLE"

\* flash points are in hundredths of a degree
classify_by_flash_point(flash_point) ==
    IF flash_point.tag = "none" THEN "NON_INFLAMMABLE"
    ELSE IF flash_point.tag = "str" THEN "NON_INFLAMMABLE"
    ELSE IF flash_point.v < 100 * FLASH_POINT_THRESHOLDS.TRES_INFLAMMABLE THEN "TRES_INFLAMMABLE"
    ELSE IF flash_point.v < 100 * FLASH_POINT_THRESHOLDS.INFLAMMABLE THEN "INFLAMMABLE"
    ELSE IF flash_point.v < 100 * FLASH_POINT_THRESHOLDS.PEU_INFLAMMABLE THEN "PEU_INFLAMMABLE"
    ELSE "NON_INFLAMMABLE"

evaluate_inflammability(substance_data) ==
    LET flash_point == substance_data.point_eclair IN
    IF flash_point.tag = "none"
    THEN [score |-> INFLAMMABILITY_SCORES.NON_INFLAMMABLE, niveau |-> "NON_INFLAMMABLE",
          explication |-> "non renseigne"]
    ELSE IF flash_point.tag = "str"
    THEN [score |-> INFLAMMABILITY_SCORES.NON_INFLAMMABLE, niveau |-> "NON_INFLAMMABLE",
          explication |-> "invalide"]
    ELSE IF flash_point.v < 100 * FLASH_POINT_THRESHOLDS.TRES_INFLAMMABLE
    THEN [score |-> INFLAMMABILITY_SCORES.TRES_INFLAMMABLE, niveau |-> "TRES_INFLAMMABLE",
          explication |-> "regle 1"]
    ELSE IF flash_point.v < 100 * FLASH_POINT_THRESHOLDS.INFLAMMABLE
    THEN [score |-> INFLAMMABILITY_SCORES.INFLAMMABLE, niveau |-> "INFLAMMABLE",
          explication |-> "regle 2"]
    ELSE IF flash_point.v < 100 * FLASH_POINT_THRESHOLDS.PEU_INFLAMMABLE
    THEN [score |-> INFLAMMABILITY_SCORES.PEU_INFLAMMABLE, niveau |-> "PEU_INFLAMMABLE",
          explication |-> "regle 3"]
    ELSE [score |-> INFLAMMABILITY_SCORES.NON_INFLAMMABLE, niveau |-> "NON_INFLAMMABLE",
          explication |-> "regle 4"]

-----------------------------------------------------------------------------
(* rules/toxicite.py *)

\* fuzzy_mappings, in the order the dict lists them
fuzzy_mappings ==
    << [level |-> "NON_TOXIQUE",
        variants |-> <<"NONTOXIQUE", "NON_TOXIQUE", "AUCUNE", "AUCUN", "NULLE">>],
       [level |-> "PEU_TOXIQUE",
        variants |-> <<"PEUTOXIQUE", "PEU_TOXIQUE", "FAIBLE", "FAIBLETOXICITE">>],
       [level |-> "IRRITANT", variants |-> <<"IRRITANT", "IRRITATION">>],
       [level |-> "NOCIF", variants |-> <<"NOCIF", "NUISIBLE", "TOXICITEMODERE", "MODEREE">>],
       [level |-> "TOXIQUE", variants |-> <<"TOXIQUE", "CORROSIF", "TOXICITEELEVEE">>],
       [level |-> "TRES_TOXIQUE",
        variants |-> <<"TRES_TOXIQUE", "TRESTOXIQUE", "CMR", "CANCEROGENE", "MUTAGENE",
                       "REPROTOXIQUE">>] >>

NoMatch == [score |-> -1, niveau |-> None]

_fuzzy_match_toxicity(toxicity_normalized) ==
    LET exact == {k \in 1..Len(fuzzy_mappings) :
                    \E v \in 1..Len(fuzzy_mappings[k].variants) :
                        fuzzy_mappings[k].variants[v] = toxicity_normalized}
        partial == {k \in 1..Len(fuzzy_mappings) :
                      \E v \in 1..Len(fuzzy_mappings[k].variants) :
                          /\ Len(fuzzy_mappings[k].variants[v]) > 2
                          /\ Contains(fuzzy_mappings[k].variants[v], toxicity_normalized)}
        first(S) == CHOOSE k \in S : \A j \in S : k <= j
        hit(k) == [score |-> TOXICITY_SCORES[fuzzy_mappings[k].level],
                   niveau |-> fuzzy_mappings[k].level]
    IN  IF exact # {} THEN hit(first(exact))
        ELSE IF partial # {} THEN hit(first(partial))
        ELSE NoMatch

\* line 75: does the normalised label select this level key
LevelKeyMatches(toxicity_normalized, level_normalized) ==
    toxicity_normalized = level_normalized \/ Contains(toxicity_normalized, level_normalized)

evaluate_toxicity(substance_data) ==
    LET toxicity_level == substance_data.toxicite
        toxicity_normalized == replace(upper(normalize_text(toxicity_level)), " ", "_")
        level_normalized(k) == replace(upper(normalize_text(TOXICITY_LEVELS[k])), " ", "_")
        matching == {k \in 1..Len(TOXICITY_LEVELS) :
                        LevelKeyMatches(toxicity_normalized, level_normalized(k))}
        firstKey == CHOOSE k \in matching : \A j \in matching : k <= j
        fuzzy == _fuzzy_match_toxicity(toxicity_normalized)
    IN  IF toxicity_level = None \/ toxicity_level = ""
        THEN [score |-> TOXICITY_SCORES[DEFAULT_TOXICITY_LEVEL],
              niveau |-> DEFAULT_TOXICITY_LEVEL, explication |-> "non renseigne"]
        ELSE IF matching # {}
        THEN [score |-> TOXICITY_SCORES[TOXICITY_LEVELS[firstKey]],
              niveau |-> TOXICITY_LEVELS[firstKey], explication |-> "niveau"]
        ELSE IF fuzzy # NoMatch
        THEN [score |-> fuzzy.score, niveau |-> fuzzy.niveau, explication |-> "niveau"]
        ELSE [score |-> TOXICITY_SCORES[DEFAULT_TOXICITY_LEVEL],
              niveau |-> DEFAULT_TOXICITY_LEVEL, explication |-> "non reconnu"]

-----------------------------------------------------------------------------
(* utils/csv_loader.py *)

NoRecord == [substance_a |-> None, substance_a_normalise |-> None,
             substance_b |-> None, substance_b_normalise |-> None,
             niveau_risque |-> None, type_reaction |-> None, produit_reaction |-> None]

\* the record looked for in the order (A, B) only
check_incompatibility_one_way(substance1, substance2, incompatibilities_list) ==
    LET sub1_norm == standardize_chemical_name(substance1)
        sub2_norm == standardize_chemical_name(substance2)
        hits == {k \in 1..Len(incompatibilities_list) :
                    /\ incompatibilities_list[k].substance_a_normalise = sub1_norm
                    /\ incompatibilities_list[k].substance_b_normalise = sub2_norm}
    IN  IF substance1 = None \/ substance1 = "" \/ substance2 = None \/ substance2 = ""
           \/ incompatibilities_list = <<>>
        THEN NoRecord
        ELSE IF hits = {} THEN NoRecord
        ELSE incompatibilities_list[CHOOSE k \in hits : \A j \in hits : k <= j]

check_incompatibility(substance1, substance2, incompatibilities_list) ==
    LET sub1_norm == standardize_chemical_name(substance1)
        sub2_norm == standardize_chemical_name(substance2)
        hits == {k \in 1..Len(incompatibilities_list) :
                    LET a_norm == incompatibilities_list[k].substance_a_normalise
                        b_norm == incompatibilities_list[k].substance_b_normalise
                    IN  \/ (a_norm = sub1_norm /\ b_norm = sub2_norm)
                        \/ (a_norm = sub2_norm /\ b_norm = sub1_norm)}
    IN  IF substance1 = None \/ substance1 = "" \/ substance2 = None \/ substance2 = ""
           \/ incompatibilities_list = <<>>
        THEN NoRecord
        ELSE IF hits = {} THEN NoRecord
        ELSE incompatibilities_list[CHOOSE k \in hits : \A j \in hits : k <= j]

NoSubstance == [cas |-> None, nom |-> None, nom_normalise |-> None,
                point_eclair |-> NoneNum, toxicite |-> None, categorie |-> None]

\* index of the record in the table, 0 when there is none
find_substance_by_name(name, substances_dict) ==
    LET name_normalized == standardize_chemical_name(name)
        hits == {k \in 1..Len(substances_dict) :
                    substances_dict[k].nom_normalise = name_normalized}
    IN  IF name = None \/ name = "" \/ substances_dict = <<>> THEN 0
        ELSE IF hits = {} THEN 0
        ELSE CHOOSE k \in hits : \A j \in hits : k <= j

find_substance_by_cas(cas_number, substances_dict) ==
    LET cas_cleaned == strip(cas_number)
        hits == {k \in 1..Len(substances_dict) : substances_dict[k].cas = cas_cleaned}
    IN  IF cas_number = None \/ cas_number = "" \/ substances_dict = <<>> THEN 0
        ELSE IF hits = {} THEN 0
        ELSE CHOOSE k \in hits : TRUE

-----------------------------------------------------------------------------
(* rules/incompatibilites.py *)

\* the severe level scored without its factor of 1.5
_calculate_incompatibility_score_flat(niveau_risque) ==
    LET niveau_normalized == upper(normalize_text(niveau_risque)) IN
    IF Contains("SEVERE", niveau_normalized) \/ Contains("CRITIQUE", niveau_normalized)
       \/ Contains("ELEVE", niveau_normalized) \/ Contains("HAUT", niveau_normalized)
    THEN Min(INCOMPATIBILITY_BASE_SCORE * SEVERE_INCOMPATIBILITY_MULTIPLIER,
             MAX_INCOMPATIBILITY_SCORE)
    ELSE IF Contains("MOYEN", niveau_normalized) \/ Contains("MODERE", niveau_normalized)
    THEN INCOMPATIBILITY_BASE_SCORE
    ELSE IF Contains("FAIBLE", niveau_normalized) \/ Contains("BAS", niveau_normalized)
    THEN INCOMPATIBILITY_BASE_SCORE \div 2
    ELSE INCOMPATIBILITY_BASE_SCORE

_calculate_incompatibility_score(niveau_risque) ==
    LET niveau_normalized == upper(normalize_text(niveau_risque)) IN
    IF Contains("SEVERE", niveau_normalized) \/ Contains("CRITIQUE", niveau_normalized)
    THEN Min((INCOMPATIBILITY_BASE_SCORE * SEVERE_INCOMPATIBILITY_MULTIPLIER * 3) \div 2,
             MAX_INCOMPATIBILITY_SCORE)
    ELSE IF Contains("ELEVE", niveau_normalized) \/ Contains("ELEVEE", niveau_normalized)
            \/ Contains("HAUT", niveau_normalized)
    THEN Min(INCOMPATIBILITY_BASE_SCORE * SEVERE_INCOMPATIBILITY_MULTIPLIER,
             MAX_INCOMPATIBILITY_SCORE)
    ELSE IF Contains("MOYEN", niveau_normalized) \/ Contains("MOYENNE", niveau_normalized)
            \/ Contains("MODERE", niveau_normalized)
    THEN INCOMPATIBILITY_BASE_SCORE
    ELSE IF Contains("FAIBLE", niveau_normalized) \/ Contains("BAS", niveau_normalized)
    THEN INCOMPATIBILITY_BASE_SCORE \div 2
    ELSE INCOMPATIBILITY_BASE_SCORE

\* category_rules, in the order the dict lists them
category_rules ==
    << <<"acide", "base", "ELEVE">>, <<"base", "acide", "ELEVE">>,
       <<"oxydant", "reducteur", "ELEVE">>, <<"reducteur", "oxydant", "ELEVE">>,
       <<"oxydant", "inflammable", "ELEVE">>, <<"inflammable", "oxydant", "ELEVE">>,
       <<"oxydant", "solvant", "MOYEN">>, <<"solvant", "oxydant", "MOYEN">>,
       <<"acide", "cyanure", "SEVERE">>, <<"cyanure", "acide", "SEVERE">>,
       <<"acide", "sulfure", "ELEVE">>, <<"sulfure", "acide", "ELEVE">>,
       <<"oxydant", "matiere_organique", "MOYEN">>, <<"matiere_organique", "oxydant", "MOYEN">>,
       <<"eau", "reactif_hydrophobe", "MOYEN">>, <<"reactif_hydrophobe", "eau", "MOYEN">>,
       <<"base", "solvant", "MOYEN">>, <<"solvant", "base", "MOYEN">>,
       <<"base", "inflammable", "MOYEN">>, <<"inflammable", "base", "MOYEN">> >>

\* does rule k apply to the normalised categories
RuleMatches(k, cat1, cat2) ==
    \/ (Contains(category_rules[k][1], cat1) /\ Contains(category_rules[k][2], cat2))
    \/ (Contains(category_rules[k][1], cat2) /\ Contains(category_rules[k][2], cat1))

NoRule == [niveau_risque |-> None, categorie1 |-> None, categorie2 |-> None]

_check_category_incompatibility(category1, category2) ==
    LET cat1 == lower(normalize_text(category1))
        cat2 == lower(normalize_text(category2))
        hits == {k \in 1..Len(category_rules) : RuleMatches(k, cat1, cat2)}
        first == CHOOSE k \in hits : \A j \in hits : k <= j
    IN  IF category1 = None \/ category1 = "" \/ category2 = None \/ category2 = ""
        THEN NoRule
        ELSE IF hits = {} THEN NoRule
        ELSE [niveau_risque |-> category_rules[first][3],
              categorie1 |-> category_rules[first][1],
              categorie2 |-> category_rules[first][2]]

_process_direct_incompatibility(name1, name2, incomp_data) ==
    [score |-> _calculate_incompatibility_score(incomp_data.niveau_risque),
     incompatible |-> TRUE,
     niveau_risque |-> incomp_data.niveau_risque,
     type_reaction |-> incomp_data.type_reaction,
     produit_reaction |-> incomp_data.produit_reaction,
     source |-> "base de donnees"]

_process_category_incompatibility(name1, name2, category1, category2, incomp_data) ==
    [score |-> _calculate_incompatibility_score(incomp_data.niveau_risque),
     incompatible |-> TRUE,
     niveau_risque |-> incomp_data.niveau_risque,
     type_reaction |-> "",
     produit_reaction |-> "",
     source |-> "categories chimiques"]

NotIncompatible(why) ==
    [score |-> 0, incompatible |-> FALSE, niveau_risque |-> "AUCUN",
     type_reaction |-> "", produit_reaction |-> "", source |-> why]

evaluate_incompatibility(substance1_data, substance2_data, incompatibilities_list) ==
    LET name1 == substance1_data.nom
        cas1 == substance1_data.cas
        category1 == substance1_data.categorie
        name2 == substance2_data.nom
        cas2 == substance2_data.cas
        category2 == substance2_data.categorie
        by_name == check_incompatibility(name1, name2, incompatibilities_list)
        direct_incomp ==
            IF by_name = NoRecord /\ cas1 # None /\ cas1 # "" /\ cas2 # None /\ cas2 # ""
            THEN check_incompatibility(cas1, cas2, incompatibilities_list)
            ELSE by_name
        category_incomp == _check_category_incompatibility(category1, category2)
    IN  IF name1 = None \/ name1 = "" \/ name2 = None \/ name2 = ""
        THEN NotIncompatible("non definie")
        ELSE IF direct_incomp # NoRecord
        THEN _process_direct_incompatibility(name1, name2, direct_incomp)
        ELSE IF category_incomp # NoRule
        THEN _process_category_incompatibility(name1, name2, category1, category2,
                                               category_incomp)
        ELSE NotIncompatible("aucune")

\* the inner loop stopped one substance short of the end of the list
RECURSIVE PairsFrom_short_inner_loop(_, _, _)
PairsFrom_short_inner_loop(i, j, n) ==
    IF i >= n THEN <<>>
    ELSE IF j > n - 1 THEN PairsFrom_short_inner_loop(i + 1, i + 2, n)
    ELSE <<(<<i, j>>)>> \o PairsFrom_short_inner_loop(i, j + 1, n)

\* the pairs (i, j), i < j, in the order of the two nested loops
RECURSIVE PairsFrom(_, _, _)
PairsFrom(i, j, n) ==
    IF i >= n THEN <<>>
    ELSE IF j > n THEN PairsFrom(i + 1, i + 2, n)
    ELSE <<(<<i, j>>)>> \o PairsFrom(i, j + 1, n)

\* an insertion that puts an entry before the entries of the same score
RECURSIVE InsertByScore_before_equals(_, _)
InsertByScore_before_equals(sorted, e) ==
    IF sorted = <<>> THEN <<e>>
    ELSE IF Head(sorted).score > e.score
         THEN <<Head(sorted)>> \o InsertByScore_before_equals(Tail(sorted), e)
         ELSE <<e>> \o sorted

\* list.sort(key=score, reverse=True): stable insertion by non-increasing score
RECURSIVE InsertByScore(_, _)
InsertByScore(sorted, e) ==
    IF sorted = <<>> THEN <<e>>
    ELSE IF Head(sorted).score >= e.score
         THEN <<Head(sorted)>> \o InsertByScore(Tail(sorted), e)
         ELSE <<e>> \o sorted

RECURSIVE SortByScore(_)
SortByScore(list) ==
    IF list = <<>> THEN <<>>
    ELSE InsertByScore(SortByScore(SubSeq(list, 1, Len(list) - 1)), list[Len(list)])

RECURSIVE CollectIncompatible(_, _, _)
CollectIncompatible(pairs, substances_list, incompatibilities_list) ==
    IF pairs = <<>> THEN <<>>
    ELSE LET i == Head(pairs)[1]
             j == Head(pairs)[2]
             res == evaluate_incompatibility(substances_list[i], substances_list[j],
                                             incompatibilities_list)
             rest == CollectIncompatible(Tail(pairs), substances_list, incompatibilities_list)
         IN  IF res.incompatible
             THEN << [substance1 |-> substances_list[i].nom,
                      substance2 |-> substances_list[j].nom,
                      score |-> res.score,
                      niveau |-> res.niveau_risque,
                      type_reaction |-> res.type_reaction,
                      produit_reaction |-> res.produit_reaction,
                      i |-> i, j |-> j] >> \o rest
             ELSE rest

check_multiple_incompatibilities(substances_list, incompatibilities_list) ==
    SortByScore(CollectIncompatible(PairsFrom(1, 2, Len(substances_list)),
                                    substances_list, incompatibilities_list))

-----------------------------------------------------------------------------
(* config/dangerous_reactions.py *)

DANGEROUS_REACTIONS ==
    << [pair |-> <<"chloroforme", "eau de javel">>, product |-> "Phosgene (COCl2)",
        product_formula |-> "COCl2", toxicity_level |-> "EXTREMELY_HAZARDOUS",
        min_risk_score |-> 50, min_incompatibility_score |-> 50,
        recommendation |-> "Ne jamais melanger. Separation stricte obligatoire."],
       [pair |-> <<"acide chlorhydrique", "eau de javel">>, product |-> "Chlore gazeux (Cl2)",
        product_formula |-> "Cl2", toxicity_level |-> "HIGHLY_HAZARDOUS",
        min_risk_score |-> 50, min_incompatibility_score |-> 50,
        recommendation |-> "Interdiction absolue de melange."],
       [pair |-> <<"cyanure", "acide">>, product |-> "Acide cyanhydrique (HCN)",
        product_formula |-> "HCN", toxicity_level |-> "LETHAL",
        min_risk_score |-> 50, min_incompatibility_score |-> 50,
        recommendation |-> "Danger mortel. Separation physique requise."],
       [pair |-> <<"ammoniaque", "eau de javel">>, product |-> "Chloramines",
        product_formula |-> "NH2Cl, NHCl2, NCl3", toxicity_level |-> "HIGHLY_HAZARDOUS",
        min_risk_score |-> 45, min_incompatibility_score |-> 50,
        recommendation |-> "Melange tres dangereux. Ne pas proximite."] >>

normalize_substance_name(name) ==
    IF name = None \/ name = "" THEN "" ELSE replace(lower(strip(name)), " ", "")

NoInfo == [pair |-> <<None, None>>, product |-> None, product_formula |-> None,
           toxicity_level |-> None, min_risk_score |-> 0, min_incompatibility_score |-> 0,
           recommendation |-> None]

is_dangerous_reaction(substance1, substance2) ==
    LET norm1 == normalize_substance_name(substance1)
        norm2 == normalize_substance_name(substance2)
        hits == {k \in 1..Len(DANGEROUS_REACTIONS) :
                    LET known_norm1 == normalize_substance_name(DANGEROUS_REACTIONS[k].pair[1])
                        known_norm2 == normalize_substance_name(DANGEROUS_REACTIONS[k].pair[2])
                    IN  \/ (norm1 = known_norm1 /\ norm2 = known_norm2)
                        \/ (norm1 = known_norm2 /\ norm2 = known_norm1)}
    IN  IF substance1 = None \/ substance1 = "" \/ substance2 = None \/ substance2 = ""
        THEN [is_dangerous |-> FALSE, info |-> NoInfo]
        ELSE IF hits = {} THEN [is_dangerous |-> FALSE, info |-> NoInfo]
        ELSE [is_dangerous |-> TRUE,
              info |-> DANGEROUS_REACTIONS[CHOOSE k \in hits : \A j \in hits : k <= j]]

-----------------------------------------------------------------------------
(* Scoring/risk_score.py *)

\* the weights of config/settings.py in the place of the HSE weights
HSE_WEIGHTS_from_settings == [inflammabilite |-> 7, toxicite |-> 8, incompatibilite |-> 5]

\* in twentieths: 0.20, 0.35, 0.45
HSE_WEIGHTS == [inflammabilite |-> 4, toxicite |-> 7, incompatibilite |-> 9]

\* the thresholds taken as exclusive lower limits
_determine_risk_level_exclusive(global_score) ==
    IF global_score > Points(RISK_LEVEL_THRESHOLDS.ELEVE) THEN "ELEVE"
    ELSE IF global_score > Points(RISK_LEVEL_THRESHOLDS.MOYEN) THEN "MOYEN"
    ELSE "FAIBLE"

\* global_score is in twentieths of a point
_determine_risk_level(global_score) ==
    IF global_score >= Points(RISK_LEVEL_THRESHOLDS.ELEVE) THEN "ELEVE"
    ELSE IF global_score >= Points(RISK_LEVEL_THRESHOLDS.MOYEN) THEN "MOYEN"
    ELSE "FAIBLE"

get_risk_level_only(global_score) == _determine_risk_level(global_score)

\* the lock of the incompatibility score written as a floor of 50
calculate_global_risk_score_floored(individual_scores, is_dangerous_reaction_detected) ==
    LET inflammabilite == Min(100, individual_scores.inflammabilite)
        toxicite0 == Min(100, individual_scores.toxicite)
        incompatibilite0 == Min(100, individual_scores.incompatibilites)
        incompatibilite == IF is_dangerous_reaction_detected THEN Max(incompatibilite0, 50)
                           ELSE incompatibilite0
        toxicite == IF is_dangerous_reaction_detected THEN Max(toxicite0, 40) ELSE toxicite0
        weighted == inflammabilite * HSE_WEIGHTS.inflammabilite
                    + toxicite * HSE_WEIGHTS.toxicite
                    + incompatibilite * HSE_WEIGHTS.incompatibilite
        base_score == Min(Points(100), weighted)
    IN  [score_global |-> base_score,
         score_global_base |-> base_score,
         niveau_risque |-> _determine_risk_level(base_score),
         scores_details |-> [inflammabilite |-> inflammabilite, toxicite |-> toxicite,
                             incompatibilites |-> incompatibilite],
         scores_ponderes |-> [inflammabilite |-> inflammabilite * HSE_WEIGHTS.inflammabilite,
                              toxicite |-> toxicite * HSE_WEIGHTS.toxicite,
                              incompatibilites |-> incompatibilite * HSE_WEIGHTS.incompatibilite],
         poids_utilises |-> HSE_WEIGHTS]

calculate_global_risk_score(individual_scores, is_dangerous_reaction_detected) ==
    LET inflammabilite == Min(100, individual_scores.inflammabilite)
        toxicite0 == Min(100, individual_scores.toxicite)
        incompatibilite0 == Min(100, individual_scores.incompatibilites)
        incompatibilite == IF is_dangerous_reaction_detected THEN 50 ELSE incompatibilite0
        toxicite == IF is_dangerous_reaction_detected THEN Max(toxicite0, 40) ELSE toxicite0
        weighted == inflammabilite * HSE_WEIGHTS.inflammabilite
                    + toxicite * HSE_WEIGHTS.toxicite
                    + incompatibilite * HSE_WEIGHTS.incompatibilite
        base_score == Min(Points(100), weighted)
    IN  [score_global |-> base_score,
         score_global_base |-> base_score,
         niveau_risque |-> _determine_risk_level(base_score),
         scores_details |-> [inflammabilite |-> inflammabilite, toxicite |-> toxicite,
                             incompatibilites |-> incompatibilite],
         scores_ponderes |-> [inflammabilite |-> inflammabilite * HSE_WEIGHTS.inflammabilite,
                              toxicite |-> toxicite * HSE_WEIGHTS.toxicite,
                              incompatibilites |-> incompatibilite * HSE_WEIGHTS.incompatibilite],
         poids_utilises |-> HSE_WEIGHTS]

-----------------------------------------------------------------------------
(* utils/environmental_factors.py *)

\* round(): to the nearest integer, a tie to the even one; n >= 0, d > 0
RoundHalfEven(n, d) ==
    LET q == n \div d
        r == n % d
    IN  IF 2 * r < d THEN q
        ELSE IF 2 * r > d THEN q + 1
        ELSE IF q % 2 = 0 THEN q ELSE q + 1

\* in fiftieths
temp_multiplier(temperature_c) ==
    IF temperature_c < 20 THEN 35
    ELSE IF temperature_c <= 30 THEN 50
    ELSE IF temperature_c <= 50 THEN 50 + (temperature_c - 30)
    ELSE 70 + (temperature_c - 50) * 2

\* the bands of the humidity factor closed on the other side
humidity_multiplier_open_bands(humidity_percent) ==
    IF humidity_percent <= 20 THEN 95
    ELSE IF humidity_percent < 40 THEN 98
    ELSE IF humidity_percent < 60 THEN 100
    ELSE IF humidity_percent < 80 THEN 102
    ELSE 105

\* in hundredths
humidity_multiplier(humidity_percent) ==
    IF humidity_percent < 20 THEN 95
    ELSE IF humidity_percent <= 40 THEN 98
    ELSE IF humidity_percent <= 60 THEN 100
    ELSE IF humidity_percent <= 80 THEN 102
    ELSE 105

\* in twentieths; ventilation is "True", "False" or None
ventilation_multiplier(ventilation) == IF ventilation = "True" THEN 17 ELSE 20

\* base_score and the results are in twentieths of a point. The code multiplies
\* binary floating-point numbers, so a product that is exactly halfway between
\* two integers reaches round() a hair above or below the half (50 x 2.2 x 0.95
\* is 104.50000000000001): both neighbours are possible results.
apply_environmental_adjustments(base_score, temperature_c, humidity_percent, ventilation, is_dangerous_reaction_flag) ==
    LET min_safety_threshold == IF is_dangerous_reaction_flag THEN 100 ELSE 0
        \* adjusted_score = numerator / denominator points
        numerator == base_score * temp_multiplier(temperature_c)
                     * humidity_multiplier(humidity_percent)
                     * ventilation_multiplier(ventilation)
        denominator == 20 * 50 * 100 * 20
        tie == 2 * (numerator % denominator) = denominator
    IN  IF numerator < min_safety_threshold * denominator
        THEN {Points(min_safety_threshold)}
        ELSE IF tie THEN {Points(numerator \div denominator), Points(numerator \div denominator + 1)}
        ELSE {Points(RoundHalfEven(numerator, denominator))}

-----------------------------------------------------------------------------
(* Scoring/risk_score.py: recommendations *)

\* the list returned, named by the level it belongs to
get_recommendations_by_level(risk_score) ==
    <<"general " \o _determine_risk_level(risk_score)>>

-----------------------------------------------------------------------------
(* rules/incompatibilites.py: storage recommendations *)

get_storage_recommendations(substance1_data, substance2_data, incompatibilities_list) ==
    LET res == evaluate_incompatibility(substance1_data, substance2_data,
                                        incompatibilities_list)
        type_reaction == lower(res.type_reaction)
        names == substance1_data.nom \o " et " \o substance2_data.nom
    IN  IF res.incompatible
        THEN (IF Contains("exotherm", type_reaction)
              THEN <<"reaction exothermique", "refroidissement">> ELSE <<>>)
             \o (IF Contains("gaz toxique", type_reaction)
                 THEN <<"gaz toxique", "hotte chimique", "masque filtrant">> ELSE <<>>)
             \o (IF Contains("corrosif", type_reaction)
                 THEN <<"reaction corrosive", "gants et lunettes", "contact peau">> ELSE <<>>)
             \o (IF Contains("SEVERE", res.niveau_risque) \/ Contains("CRITIQUE", res.niveau_risque)
                 THEN <<"interdiction meme local " \o names, "batiments separes",
                        "former le personnel", "procedure d'urgence">>
                 ELSE IF Contains("ELEVE", res.niveau_risque)
                         \/ Contains("ELEVEE", res.niveau_risque)
                 THEN <<"armoires differentes " \o names, "distance 3 metres",
                        "identifier les zones", "jamais simultanement">>
                 ELSE <<"stockes separement " \o names, "rangement par famille",
                        "etancheite des contenants">>)
        ELSE <<"pas d'incompatibilite majeure " \o names, "bonnes pratiques de stockage">>

-----------------------------------------------------------------------------
(* The tables behind load_substances() and load_incompatibilities() *)

Substance(cas, nom, point_eclair, toxicite, categorie) ==
    [cas |-> cas, nom |-> nom, nom_normalise |-> standardize_chemical_name(nom),
     point_eclair |-> point_eclair, toxicite |-> toxicite, categorie |-> categorie]

SubstancesTable ==
    << Substance("67-66-3", "Chloroforme", NoneNum, "NOCIF", "solvant"),
       Substance("7681-52-9", "Eau de Javel", NoneNum, "IRRITANT", "oxydant"),
       Substance("60-29-7", "Ether", Num(-4500), "NOCIF", "inflammable"),
       Substance("7697-37-2", "Acide nitrique", NoneNum, "TOXIQUE", "acide") >>

Incompatibility(a, b, niveau, type_reaction, produit) ==
    [substance_a |-> a, substance_a_normalise |-> standardize_chemical_name(a),
     substance_b |-> b, substance_b_normalise |-> standardize_chemical_name(b),
     niveau_risque |-> upper(niveau), type_reaction |-> type_reaction,
     produit_reaction |-> produit]

IncompatibilitiesTable ==
    << Incompatibility("Chloroforme", "Eau de Javel", "SEVERE", "gaz toxique", "Phosgene"),
       Incompatibility("Acide nitrique", "Ether", "faible", "Exothermique", "") >>

-----------------------------------------------------------------------------
(* services/analyzer.py *)

\* quantities.get(name, 0)
GetQuantity(quantities, name) == IF name \in DOMAIN quantities THEN quantities[name] ELSE 0

EmptyMapping == [k \in {} |-> 0]

\* dict.get(key, default)
DictGet(d, key, default) == IF key \in DOMAIN d THEN d[key] ELSE default

\* no dangerous_reaction_info: the variable is None, the key is absent
NoReactionInfo ==
    [substances |-> <<>>, produit |-> None, formule |-> None, toxicite |-> None,
     score_minimum |-> 0, recommandations |-> <<>>]

\* lines 207-214: the dict built from the entry of DANGEROUS_REACTIONS
dangerous_reaction_info(inc, danger_info) ==
    [substances |-> <<inc.substance1, inc.substance2>>,
     produit |-> DictGet(danger_info, "produit", None),
     formule |-> DictGet(danger_info, "formule", None),
     toxicite |-> DictGet(danger_info, "toxicite", None),
     score_minimum |-> DictGet(danger_info, "min_score", 50),
     recommandations |-> DictGet(danger_info, "recommandations", <<>>)]

\* has_dangerous_reaction and has_environnemental_factors say whether the keys
\* details['dangerous_reaction'] and result['environnemental_factors'] are present
InitialResult ==
    [success |-> TRUE, score_global |-> 0, niveau_risque |-> "FAIBLE",
     details |-> [inflammabilite |-> 0, toxicite |-> 0, incompatibilites |-> <<>>,
                  base_score |-> 0, final_score |-> 0, has_dangerous_reaction |-> FALSE,
                  dangerous_reaction |-> NoReactionInfo],
     scores_details |-> [inflammabilite |-> 0, toxicite |-> 0, incompatibilites |-> 0],
     has_environnemental_factors |-> FALSE,
     recommandations |-> <<>>, substances_analysees |-> <<>>,
     erreurs |-> <<>>, avertissements |-> <<>>]

RECURSIVE InvalidNames(_)
InvalidNames(substances) ==
    IF substances = <<>> THEN <<>>
    ELSE (IF is_valid_chemical_name(Head(substances)) THEN <<>>
          ELSE <<"Nom de substance invalide: " \o Head(substances)>>)
         \o InvalidNames(Tail(substances))

\* the limit of 10 names applied to a list of 10 names as well
_validate_input_limit_exclusive(data) ==
    IF data.shape.request # "dict" \/ data.shape.substances # "list" \/ Len(data.substances) = 0
    THEN <<"Le champ 'substances' est obligatoire">>
    ELSE (IF Len(data.substances) >= 10
          THEN <<"Trop de substances (maximum 10 par analyse)">> ELSE <<>>)
         \o InvalidNames(data.substances)

\* the Python type of the request and of the value of each of its keys
\* ("missing": the key is absent; input_data.get(key, {}) then gives a dict)
WellFormed ==
    [request |-> "dict", substances |-> "list", quantites |-> "dict", contexte_labo |-> "dict"]

_validate_input(data) ==
    IF data.shape.request # "dict"
    THEN <<"Les donnees d'entree doivent etre un dictionnaire">>
    ELSE IF data.shape.substances = "missing"
    THEN <<"Le champ 'substances' est obligatoire">>
    ELSE IF data.shape.substances # "list"
    THEN <<"Le champ 'substances' doit etre une liste">>
    ELSE IF Len(data.substances) = 0 THEN <<"La liste de substances ne peut pas etre vide">>
    ELSE (IF Len(data.substances) > 10
          THEN <<"Trop de substances (maximum 10 par analyse)">> ELSE <<>>)
         \o InvalidNames(data.substances)

\* a reference to a substance object: a record of the loaded table or a fresh default dict
DbRef(k) == [kind |-> "db", idx |-> k]
NewRef(k) == [kind |-> "new", idx |-> k]
Deref(ref, db, fresh) == IF ref.kind = "db" THEN db[ref.idx] ELSE fresh[ref.idx]

\* a placeholder rated as an irritant instead of a harmful substance
DefaultSubstance_irritant(cleaned_name) ==
    [cas |-> None, nom |-> cleaned_name, nom_normalise |-> None,
     point_eclair |-> NoneNum, toxicite |-> "IRRITANT", categorie |-> "non_classee"]

DefaultSubstance(cleaned_name) ==
    [cas |-> None, nom |-> cleaned_name, nom_normalise |-> None,
     point_eclair |-> NoneNum, toxicite |-> "NOCIF", categorie |-> "non_classee"]

\* the reference returned for name; a NewRef past the end of fresh is a default to create
_find_and_validate_substance(name, db, fresh) ==
    LET cleaned_name == clean_input(name)
        by_name == find_substance_by_name(cleaned_name, db)
        by_cas == IF Contains("-", cleaned_name) THEN find_substance_by_cas(cleaned_name, db)
                  ELSE 0
    IN  IF by_name # 0 THEN DbRef(by_name)
        ELSE IF by_cas # 0 THEN DbRef(by_cas)
        ELSE NewRef(Len(fresh) + 1)

\* the loop of lines 126-131 over the names still to resolve
RECURSIVE ResolveAll(_, _, _, _)
ResolveAll(names, quantities, db, st) ==
    IF names = <<>> THEN st
    ELSE LET name == Head(names)
             ref == _find_and_validate_substance(name, db, st.fresh)
             created == ref.kind = "new"
         IN  ResolveAll(Tail(names), quantities, db,
                [fresh |-> IF created
                           THEN Append(st.fresh, DefaultSubstance(clean_input(name)))
                           ELSE st.fresh,
                 warnings |-> IF created
                              THEN Append(st.warnings, "Substance non trouvee: " \o name)
                              ELSE st.warnings,
                 found |-> Append(st.found, ref),
                 qty |-> [r \in DOMAIN st.qty \cup {ref} |->
                             IF r = ref THEN GetQuantity(quantities, name) ELSE st.qty[r]]])

\* an evaluation that lets the quantity raise the toxicity score
RECURSIVE EvaluateAll_quantity_weighted(_, _, _, _)
EvaluateAll_quantity_weighted(refs, db, fresh, qty) ==
    IF refs = <<>> THEN <<>>
    ELSE LET substance == Deref(Head(refs), db, fresh)
             inflam_result == evaluate_inflammability(substance)
             tox_result == evaluate_toxicity(substance)
         IN  << [nom |-> substance.nom, cas |-> substance.cas,
                 quantite |-> qty[Head(refs)],
                 inflammabilite |-> [score |-> inflam_result.score,
                                     niveau |-> inflam_result.niveau],
                 toxicite |-> [score |-> IF qty[Head(refs)] >= 500
                                         THEN Min(100, tox_result.score + 10)
                                         ELSE tox_result.score,
                               niveau |-> tox_result.niveau]] >>
             \o EvaluateAll_quantity_weighted(Tail(refs), db, fresh, qty)

RECURSIVE EvaluateAll(_, _, _, _)
EvaluateAll(refs, db, fresh, qty) ==
    IF refs = <<>> THEN <<>>
    ELSE LET substance == Deref(Head(refs), db, fresh)
             inflam_result == evaluate_inflammability(substance)
             tox_result == evaluate_toxicity(substance)
         IN  << [nom |-> substance.nom, cas |-> substance.cas,
                 quantite |-> qty[Head(refs)],
                 inflammabilite |-> [score |-> inflam_result.score,
                                     niveau |-> inflam_result.niveau],
                 toxicite |-> [score |-> tox_result.score, niveau |-> tox_result.niveau]] >>
             \o EvaluateAll(Tail(refs), db, fresh, qty)

RECURSIVE Objects(_, _, _)
Objects(refs, db, fresh) ==
    IF refs = <<>> THEN <<>>
    ELSE <<Deref(Head(refs), db, fresh)>> \o Objects(Tail(refs), db, fresh)

\* next((s for s in found_substances if s.get('nom') == nom), None): position, 0 for None
FirstNamed(nom, objects) ==
    LET hits == {k \in 1..Len(objects) : objects[k].nom = nom}
    IN  IF hits = {} THEN 0 ELSE CHOOSE k \in hits : \A j \in hits : k <= j

\* the loop of lines 201-244 over the detected incompatibilities
RECURSIVE ScanDetected(_, _, _, _)
ScanDetected(list, objects, incompatibilities_list, st) ==
    IF list = <<>> THEN st
    ELSE LET inc == Head(list)
             check == is_dangerous_reaction(inc.substance1, inc.substance2)
             k1 == FirstNamed(inc.substance1, objects)
             k2 == FirstNamed(inc.substance2, objects)
         IN  ScanDetected(Tail(list), objects, incompatibilities_list,
                [detected |-> st.detected \/ check.is_dangerous,
                 info |-> IF check.is_dangerous
                          THEN dangerous_reaction_info(inc, check.info) ELSE st.info,
                 substances |-> IF check.is_dangerous
                                THEN <<inc.substance1, inc.substance2>> ELSE st.substances,
                 details |-> Append(st.details,
                                [substances |-> <<inc.substance1, inc.substance2>>,
                                 score |-> inc.score, niveau |-> inc.niveau,
                                 is_dangerous |-> check.is_dangerous]),
                 recs |-> IF k1 # 0 /\ k2 # 0
                          THEN st.recs \o get_storage_recommendations(objects[k1], objects[k2],
                                                                     incompatibilities_list)
                          ELSE st.recs])

RECURSIVE ScoresOf(_)
ScoresOf(list) == IF list = <<>> THEN <<>> ELSE <<Head(list).score>> \o ScoresOf(Tail(list))

\* list(dict.fromkeys(recs)): the first occurrence of each entry, in order
Dedup(recs) ==
    LET first == {k \in 1..Len(recs) : \A j \in 1..(k - 1) : recs[j] # recs[k]}
    IN  [i \in 1..Cardinality(first) |->
            recs[CHOOSE k \in first : Cardinality({j \in first : j <= k}) = i]]

\* if context: the dict has at least one key
ContextGiven(context) ==
    context.temperature_c # NoneNum \/ context.humidite_percent # NoneNum
        \/ context.ventilation # None

_evaluate_context(context, scores, has_environmental_factors) ==
    LET ventilation == IF context.ventilation = None THEN "True" ELSE context.ventilation
        temperature == context.temperature_c
        humidite == context.humidite_percent
    IN  (IF ventilation # "True" /\ scores.toxicite >= 40
         THEN <<"Absence de ventilation avec substances toxiques">> ELSE <<>>)
        \o (IF ventilation # "True" /\ scores.inflammabilite >= 50
            THEN <<"Absence de ventilation avec substances inflammables">> ELSE <<>>)
        \o (IF ~has_environmental_factors /\ temperature.tag = "num" /\ temperature.v # 0
               /\ temperature.v > 25 /\ scores.inflammabilite >= 60
            THEN <<"Temperature elevee">> ELSE <<>>)
        \o (IF humidite.tag = "num" /\ humidite.v # 0 /\ humidite.v < 30
            THEN <<"Faible humidite">> ELSE <<>>)

-----------------------------------------------------------------------------
(* analyze_risk, stage by stage *)

\* lines 101-106
Validate ==
    /\ pc = "validate"
    /\ LET validation_errors == _validate_input(input_data) IN
          IF validation_errors # <<>>
          THEN /\ result' = [result EXCEPT !.success = FALSE, !.erreurs = validation_errors]
               /\ pc' = "done"
          ELSE /\ result' = result
               /\ pc' = "load"
    /\ UNCHANGED <<arg, ret, input_data, substances_db, incompatibilities_db, placeholders,
                   found_substances, quantite, evaluations, category_scores,
                   detected_incomp, dangerous, global_result, final_score>>

\* lines 108-115; the substance file may be missing or empty
LoadTables ==
    /\ pc = "load"
    /\ \E db \in {SubstancesTable, <<>>} :
          /\ substances_db' = db
          /\ incompatibilities_db' = IncompatibilitiesTable
          /\ IF db = <<>>
             THEN /\ result' = [result EXCEPT !.success = FALSE,
                                  !.erreurs = Append(result.erreurs,
                                      "Impossible de charger la base de donnees des substances")]
                  /\ pc' = "done"
             ELSE /\ result' = result
                  /\ pc' = "resolve"
    /\ UNCHANGED <<arg, ret, input_data, placeholders, found_substances, quantite,
                   evaluations, category_scores, detected_incomp, dangerous,
                   global_result, final_score>>

\* lines 117-136; quantities.get (line 130) raises AttributeError when
\* 'quantites' is not a dict, after the first name has been looked up
ResolveSubstances ==
    /\ pc = "resolve"
    /\ input_data.shape.quantites \in {"dict", "missing"}
    /\ \E st \in {ResolveAll(input_data.substances, input_data.quantites, substances_db,
                             [fresh |-> <<>>, warnings |-> result.avertissements,
                              found |-> <<>>, qty |-> EmptyMapping])} :
           /\ placeholders' = st.fresh
           /\ found_substances' = st.found
           /\ quantite' = st.qty
           /\ IF st.found = <<>>
              THEN /\ result' = [result EXCEPT !.success = FALSE,
                                   !.avertissements = st.warnings,
                                   !.erreurs = Append(result.erreurs,
                                       "Aucune substance valide n'a pu etre identifiee")]
                   /\ pc' = "done"
              ELSE /\ result' = [result EXCEPT !.avertissements = st.warnings]
                   /\ pc' = "evaluate"
    /\ UNCHANGED <<arg, ret, input_data, substances_db, incompatibilities_db, evaluations,
                   category_scores, detected_incomp, dangerous, global_result, final_score>>

ResolveSubstancesRaises ==
    /\ pc = "resolve"
    /\ input_data.shape.quantites \notin {"dict", "missing"}
    /\ \E st \in {ResolveAll(<<Head(input_data.substances)>>, EmptyMapping, substances_db,
                             [fresh |-> <<>>, warnings |-> result.avertissements,
                              found |-> <<>>, qty |-> EmptyMapping])} :
           result' = [result EXCEPT !.avertissements = st.warnings]
    /\ pc' = "raised"
    /\ UNCHANGED <<arg, ret, input_data, substances_db, incompatibilities_db, placeholders,
                   found_substances, quantite, evaluations, category_scores,
                   detected_incomp, dangerous, global_result, final_score>>

\* lines 138-176
EvaluateHazards ==
    /\ pc = "evaluate"
    /\ \E evals \in {EvaluateAll(found_substances, substances_db, placeholders, quantite)} :
       LET all_inflammability_scores == [k \in 1..Len(evals) |-> evals[k].inflammabilite.score]
           all_toxicity_scores == [k \in 1..Len(evals) |-> evals[k].toxicite.score]
       IN  /\ evaluations' = evals
           /\ result' = [result EXCEPT !.substances_analysees = result.substances_analysees \o evals]
           /\ category_scores' =
                 [inflammabilite |-> SeqMax(all_inflammability_scores),
                  toxicite |-> SeqMax(all_toxicity_scores),
                  incompatibilites |-> 0]
    /\ pc' = "pairs"
    /\ UNCHANGED <<arg, ret, input_data, substances_db, incompatibilities_db, placeholders,
                   found_substances, quantite, detected_incomp, dangerous, global_result,
                   final_score>>

NoDanger == [detected |-> FALSE, info |-> NoReactionInfo, substances |-> <<>>]

\* lines 178-244
EvaluatePairs ==
    /\ pc = "pairs"
    /\ \E objects \in {Objects(found_substances, substances_db, placeholders)} :
       \E detected \in {IF Len(found_substances) > 1
                        THEN check_multiple_incompatibilities(objects, incompatibilities_db)
                        ELSE <<>>} :
       \E st \in {ScanDetected(detected, objects, incompatibilities_db,
                               [detected |-> FALSE, info |-> NoReactionInfo, substances |-> <<>>,
                                details |-> <<>>, recs |-> result.recommandations])} :
           /\ detected_incomp' = detected
           /\ category_scores' =
                 [category_scores EXCEPT !.incompatibilites =
                     IF detected # <<>> THEN SeqMax(ScoresOf(detected)) ELSE 0]
           /\ dangerous' = [detected |-> st.detected, info |-> st.info,
                            substances |-> st.substances]
           /\ result' = [result EXCEPT !.recommandations = st.recs,
                                       !.details.incompatibilites = st.details]
    /\ pc' = "aggregate"
    /\ UNCHANGED <<arg, ret, input_data, substances_db, incompatibilities_db, placeholders,
                   found_substances, quantite, evaluations, global_result, final_score>>

\* lines 246-259
Aggregate ==
    /\ pc = "aggregate"
    /\ global_result' = calculate_global_risk_score(category_scores, dangerous.detected)
    /\ pc' = "adjust"
    /\ UNCHANGED <<arg, ret, input_data, substances_db, incompatibilities_db, placeholders,
                   found_substances, quantite, evaluations, category_scores,
                   detected_incomp, dangerous, final_score, result>>

\* the stage run with a default temperature of 20 degrees and a default
\* humidity of 50 percent when the request leaves one of them out
AdjustEnvironment_defaults ==
    /\ pc = "adjust"
    /\ input_data.shape.contexte_labo \in {"dict", "missing"}
    /\ LET context == input_data.contexte_labo
           temperature == IF context.temperature_c.tag = "none" THEN Num(20)
                          ELSE context.temperature_c
           humidity == IF context.humidite_percent.tag = "none" THEN Num(50)
                       ELSE context.humidite_percent
       IN  /\ final_score' \in apply_environmental_adjustments(
                                   global_result.score_global, temperature.v, humidity.v,
                                   context.ventilation, dangerous.detected)
           /\ result' = [result EXCEPT !.has_environnemental_factors = TRUE]
    /\ pc' = "assemble"
    /\ UNCHANGED <<arg, ret, input_data, substances_db, incompatibilities_db, placeholders,
                   found_substances, quantite, evaluations, category_scores,
                   detected_incomp, dangerous, global_result>>

\* lines 263-296
AdjustEnvironment ==
    /\ pc = "adjust"
    /\ input_data.shape.contexte_labo \in {"dict", "missing"}
    /\ LET context == input_data.contexte_labo
           temperature == context.temperature_c
           humidity == context.humidite_percent
           ventilation == context.ventilation
           base_score == global_result.score_global
       IN  IF temperature.tag # "none" /\ humidity.tag # "none"
           THEN /\ final_score' \in apply_environmental_adjustments(
                                        base_score, temperature.v, humidity.v, ventilation,
                                        dangerous.detected)
                /\ result' = [result EXCEPT !.has_environnemental_factors = TRUE]
           ELSE /\ final_score' = base_score
                /\ result' = result
    /\ pc' = "assemble"
    /\ UNCHANGED <<arg, ret, input_data, substances_db, incompatibilities_db, placeholders,
                   found_substances, quantite, evaluations, category_scores,
                   detected_incomp, dangerous, global_result>>

\* lines 264-266: context.get raises AttributeError when 'contexte_labo' is not a dict
AdjustEnvironmentRaises ==
    /\ pc = "adjust"
    /\ input_data.shape.contexte_labo \notin {"dict", "missing"}
    /\ pc' = "raised"
    /\ UNCHANGED <<arg, ret, input_data, substances_db, incompatibilities_db, placeholders,
                   found_substances, quantite, evaluations, category_scores,
                   detected_incomp, dangerous, global_result, final_score, result>>

\* lines 297-391
Assemble ==
    /\ pc = "assemble"
    /\ LET context == input_data.contexte_labo
           recs == result.recommandations
                   \o get_recommendations_by_level(final_score)
                   \o (IF category_scores.inflammabilite >= 60
                       THEN <<"Risque d'inflammabilite eleve detecte">> ELSE <<>>)
                   \o (IF category_scores.toxicite >= 70
                       THEN <<"Risque toxicologique eleve detecte">> ELSE <<>>)
                   \o (IF category_scores.incompatibilites >= 60
                       THEN <<"Incompatibilites severes detectees">> ELSE <<>>)
                   \o (IF dangerous.detected
                       THEN [k \in 1..Len(dangerous.info.recommandations) |->
                                "ALERTE " \o dangerous.info.recommandations[k]]
                       ELSE <<>>)
           warnings == IF ContextGiven(context)
                       THEN _evaluate_context(context, category_scores,
                                              result.has_environnemental_factors)
                       ELSE <<>>
       IN  result' = [result EXCEPT
                        !.score_global = final_score,
                        !.niveau_risque = get_risk_level_only(final_score),
                        !.details.inflammabilite = category_scores.inflammabilite,
                        !.details.toxicite = category_scores.toxicite,
                        !.details.base_score = global_result.score_global,
                        !.details.final_score = final_score,
                        !.details.has_dangerous_reaction = dangerous.detected,
                        !.details.dangerous_reaction = dangerous.info,
                        !.scores_details = category_scores,
                        !.avertissements = result.avertissements \o warnings,
                        !.recommandations = Dedup(recs)]
    /\ pc' = "done"
    /\ UNCHANGED <<arg, ret, input_data, substances_db, incompatibilities_db, placeholders,
                   found_substances, quantite, evaluations, category_scores,
                   detected_incomp, dangerous, global_result, final_score>>

\* analyze_risk from the resolution of the names to the result (lines 117-391),
\* for a request that passed validation: the parts of the results it can
\* return that show the scoring
ScoringOf(request, db, incompatibilities_list) ==
    LET st == ResolveAll(request.substances, request.quantites, db,
                         [fresh |-> <<>>, warnings |-> <<>>, found |-> <<>>,
                          qty |-> EmptyMapping])
        evals == EvaluateAll(st.found, db, st.fresh, st.qty)
        objects == Objects(st.found, db, st.fresh)
        detected == IF Len(st.found) > 1
                    THEN check_multiple_incompatibilities(objects, incompatibilities_list)
                    ELSE <<>>
        scan == ScanDetected(detected, objects, incompatibilities_list,
                             [detected |-> FALSE, info |-> NoReactionInfo, substances |-> <<>>,
                              details |-> <<>>, recs |-> <<>>])
        scores == [inflammabilite |-> SeqMax([k \in 1..Len(evals) |-> evals[k].inflammabilite.score]),
                   toxicite |-> SeqMax([k \in 1..Len(evals) |-> evals[k].toxicite.score]),
                   incompatibilites |-> IF detected # <<>> THEN SeqMax(ScoresOf(detected)) ELSE 0]
        global == calculate_global_risk_score(scores, scan.detected)
        context == request.contexte_labo
        finals == IF context.temperature_c.tag # "none" /\ context.humidite_percent.tag # "none"
                  THEN apply_environmental_adjustments(global.score_global,
                           context.temperature_c.v, context.humidite_percent.v,
                           context.ventilation, scan.detected)
                  ELSE {global.score_global}
    IN  {[scores_details |-> scores,
          score_global |-> final,
          niveau_risque |-> get_risk_level_only(final),
          incompatibilites |-> scan.details,
          recommandations |->
              Dedup(scan.recs \o get_recommendations_by_level(final)
                    \o (IF scores.inflammabilite >= 60
                        THEN <<"Risque d'inflammabilite eleve detecte">> ELSE <<>>)
                    \o (IF scores.toxicite >= 70
                        THEN <<"Risque toxicologique eleve detecte">> ELSE <<>>)
                    \o (IF scores.incompatibilites >= 60
                        THEN <<"Incompatibilites severes detectees">> ELSE <<>>)
                    \o (IF scan.detected
                        THEN [k \in 1..Len(scan.info.recommandations) |->
                                 "ALERTE " \o scan.info.recommandations[k]]
                        ELSE <<>>))] : final \in finals}

-----------------------------------------------------------------------------
(* The requests *)

RequestNames == {"Chloroforme", "eau de javel", "Ether", "Acide nitrique", "Xyz123", "x"}

\* nitric acid is asked alone or with one other product
NitricLists ==
    {list \in [1..1 -> RequestNames] \cup [1..2 -> RequestNames] :
        \E k \in DOMAIN list : list[k] = "Acide nitrique"}

RequestLists ==
    UNION {[1..n -> RequestNames \ {"Acide nitrique"}] : n \in 0..MaxSubstances} \cup NitricLists

Temperatures == {15, 25, 40, MaxTemp}
Humidities == {10, 50, 90}

\* a context gives each key a value or leaves it out (None)
Contexts ==
    [temperature_c : {NoneNum} \cup {Num(t) : t \in Temperatures},
     humidite_percent : {NoneNum} \cup {Num(h) : h \in Humidities},
     ventilation : {None, "True", "False"}]

NoContext == [temperature_c |-> NoneNum, humidite_percent |-> NoneNum, ventilation |-> None]

PythonTypes == {"dict", "missing", "NoneType", "list", "str"}

\* requests of every shape; the payload of a key is read only when its type is the expected one
ShapedRequests ==
    [substances : {<<"Chloroforme", "Xyz123">>},
     quantites : {EmptyMapping},
     contexte_labo : {NoContext},
     shape : [request : {"dict", "NoneType", "list", "str"}, substances : PythonTypes \ {"dict"},
              quantites : PythonTypes, contexte_labo : PythonTypes]]

LongNames == <<"Chloroforme", "Ether", "Acide nitrique", "Xyz123", "eau de javel">>

LongList(n) == [k \in 1..n |-> LongNames[((k - 1) % Len(LongNames)) + 1]]

\* lists at the limit of 10 names and just beyond it
LongRequests ==
    [substances : {LongList(10), LongList(11), LongList(10) \o <<"x">>},
     quantites : {EmptyMapping},
     contexte_labo : {NoContext},
     shape : {WellFormed}]

\* quantities in mL or g, under the names as the request writes them
Quantities ==
    {[name \in RequestNames |-> 500],
     [name \in {"Ether", "Xyz123", "eau de javel"} |-> IF name = "Ether" THEN 250 ELSE 1000]}

\* with lists that ask one product under two spellings
QuantifiedRequests ==
    [substances : RequestLists \cup {<<"eau de javel", "Eau de Javel">>,
                                     <<"Eau de Javel", "eau de javel">>, <<"Ether", "ETHER">>},
     quantites : Quantities,
     contexte_labo : {NoContext,
                      [temperature_c |-> Num(40), humidite_percent |-> Num(90),
                       ventilation |-> "False"]},
     shape : {WellFormed}]

Idle == <<>>

Init ==
    /\ pc = "validate"
    /\ arg = Idle
    /\ ret = Idle
    /\ input_data \in [substances : RequestLists,
                       quantites : {EmptyMapping},
                       contexte_labo : Contexts,
                       shape : {WellFormed}]
                      \cup ShapedRequests \cup LongRequests \cup QuantifiedRequests
    /\ substances_db = <<>>
    /\ incompatibilities_db = <<>>
    /\ placeholders = <<>>
    /\ found_substances = <<>>
    /\ quantite = EmptyMapping
    /\ evaluations = <<>>
    /\ category_scores = [inflammabilite |-> 0, toxicite |-> 0, incompatibilites |-> 0]
    /\ detected_incomp = <<>>
    /\ dangerous = NoDanger
    /\ global_result = calculate_global_risk_score(
                           [inflammabilite |-> 0, toxicite |-> 0, incompatibilites |-> 0], FALSE)
    /\ final_score = 0
    /\ result = InitialResult

Next ==
    \/ Validate
    \/ LoadTables
    \/ ResolveSubstances
    \/ ResolveSubstancesRaises
    \/ EvaluateHazards
    \/ EvaluatePairs
    \/ Aggregate
    \/ AdjustEnvironment
    \/ AdjustEnvironmentRaises
    \/ Assemble

Spec == Init /\ [][Next]_vars

-----------------------------------------------------------------------------
(* The rule functions called on their own: pc goes from "call" to          *)
(* "returned", arg holds the argument and ret the value returned; the       *)
(* variables of analyze_risk keep their initial values.                     *)

pipeline_vars == <<input_data, substances_db, incompatibilities_db, placeholders,
                   found_substances, quantite, evaluations, category_scores,
                   detected_incomp, dangerous, global_result, final_score, result>>

PipelineIdle ==
    /\ input_data = Idle
    /\ substances_db = <<>>
    /\ incompatibilities_db = <<>>
    /\ placeholders = <<>>
    /\ found_substances = <<>>
    /\ quantite = EmptyMapping
    /\ evaluations = <<>>
    /\ category_scores = [inflammabilite |-> 0, toxicite |-> 0, incompatibilites |-> 0]
    /\ detected_incomp = <<>>
    /\ dangerous = NoDanger
    /\ global_result = Idle
    /\ final_score = 0
    /\ result = InitialResult

Return(fn, value) ==
    /\ pc = "call"
    /\ ret' = [fn |-> fn, value |-> value]
    /\ pc' = "returned"
    /\ UNCHANGED <<arg, pipeline_vars>>

(* calculate_global_risk_score on a grid of category scores *)

CategoryScoreGrid == {5 * k : k \in 0..20} \cup {1, 39, 99}

InitScore ==
    /\ pc = "call"
    /\ arg \in [individual_scores : [inflammabilite : CategoryScoreGrid,
                                     toxicite : CategoryScoreGrid,
                                     incompatibilites : CategoryScoreGrid],
                is_dangerous_reaction_detected : BOOLEAN]
    /\ ret = Idle
    /\ PipelineIdle

CallCalculateGlobalRiskScore ==
    Return("calculate_global_risk_score",
           calculate_global_risk_score(arg.individual_scores,
                                       arg.is_dangerous_reaction_detected))

SpecScore == InitScore /\ [][CallCalculateGlobalRiskScore]_vars

(* normalize_text and standardize_chemical_name applied to a name, then to *)
(* their own result *)

\* a capital, an accented capital, a small letter, and the characters the two
\* functions treat apart: space, hyphen, underscore, another separator
NameAlphabet == {"A", "É", "b", " ", "-", "_", "("}

RECURSIVE Words(_)
Words(n) ==
    IF n = 0 THEN {""}
    ELSE LET shorter == Words(n - 1)
         IN  shorter \cup {w \o c : w \in shorter, c \in NameAlphabet}

InitNames ==
    /\ pc = "call"
    /\ arg \in [text : Words(MaxNameLen) \cup {None}]
    /\ ret = Idle
    /\ PipelineIdle

CallNormalizeText ==
    Return("normalize_text", normalize_text(arg.text))

CallStandardizeChemicalName ==
    Return("standardize_chemical_name", standardize_chemical_name(arg.text))

\* the function called once more, on the value it returned
CallOnResult ==
    /\ pc = "returned"
    /\ ret' = [fn |-> ret.fn,
               first |-> ret.value,
               value |-> IF ret.fn = "normalize_text" THEN normalize_text(ret.value)
                         ELSE standardize_chemical_name(ret.value)]
    /\ pc' = "called twice"
    /\ UNCHANGED <<arg, pipeline_vars>>

NextNames == CallNormalizeText \/ CallStandardizeChemicalName \/ CallOnResult

SpecNames == InitNames /\ [][NextNames]_vars

(* apply_environmental_adjustments called on its own *)

\* base scores in twentieths of a point: 15.75, 38.25, 57.5, 73.75 among them
BaseScores == {0, 315, 765, 1000, 1150, 1475, 2000}

BandTemperatures == {19, 20, 30, 31, 50, 51, MaxTemp}

BandHumidities == {19, 20, 40, 41, 60, 61, 80, 81}

InitEnv ==
    /\ pc = "call"
    /\ arg \in [base_score : BaseScores, temperature_c : BandTemperatures,
                humidity_percent : BandHumidities, ventilation : {None, "True", "False"},
                is_dangerous_reaction : BOOLEAN]
    /\ ret = Idle
    /\ PipelineIdle

CallApplyEnvironmentalAdjustments ==
    \E adjusted_score \in apply_environmental_adjustments(arg.base_score, arg.temperature_c,
                                                          arg.humidity_percent, arg.ventilation,
                                                          arg.is_dangerous_reaction) :
        Return("apply_environmental_adjustments", adjusted_score)

SpecEnv == InitEnv /\ [][CallApplyEnvironmentalAdjustments]_vars

(* calculate_global_risk_score on dicts with missing, out-of-range and *)
(* non-numeric entries *)

EdgeScores == {-10, 0, 50, 100, 150}

\* what the dict holds under a key: a number, nothing, or a string such as 'invalide'
EntryTypes == {"number", "missing", "str"}

InitScoreEdge ==
    /\ pc = "call"
    /\ arg \in [individual_scores : [inflammabilite : EdgeScores, toxicite : EdgeScores,
                                     incompatibilites : EdgeScores],
                entry_types : [inflammabilite : EntryTypes, toxicite : EntryTypes,
                               incompatibilites : EntryTypes],
                is_dangerous_reaction_detected : BOOLEAN]
    /\ ret = Idle
    /\ PipelineIdle

\* lines 40-42: individual_scores.get(key, 0) gives 0 for a missing key, and
\* min(100, 'invalide') raises TypeError
CallCalculateGlobalRiskScoreOnEdgeCase ==
    LET got == [key \in DOMAIN arg.individual_scores |->
                   IF arg.entry_types[key] = "missing" THEN 0
                   ELSE arg.individual_scores[key]]
    IN  IF \E key \in DOMAIN arg.entry_types : arg.entry_types[key] = "str"
        THEN Return("calculate_global_risk_score", [raised |-> "TypeError"])
        ELSE Return("calculate_global_risk_score",
                    calculate_global_risk_score(got, arg.is_dangerous_reaction_detected))

SpecScoreEdge == InitScoreEdge /\ [][CallCalculateGlobalRiskScoreOnEdgeCase]_vars

(* evaluate_inflammability and classify_by_flash_point on flash points *)

FlashPoints ==
    {Num(100 * d) : d \in (0 - FlashBelowZero)..MaxFlash}
        \cup {Num(2299), Num(2301), Num(5999), Num(6001), Num(9999), Num(10001)}
        \cup {NoneNum, Unparsable}

InitFlash ==
    /\ pc = "call"
    /\ arg \in [nom : {"Substance"}, point_eclair : FlashPoints]
    /\ ret = Idle
    /\ PipelineIdle

CallEvaluateInflammability ==
    Return("evaluate_inflammability", evaluate_inflammability(arg))

CallClassifyByFlashPoint ==
    Return("classify_by_flash_point", classify_by_flash_point(arg.point_eclair))

NextFlash ==
    \/ CallEvaluateInflammability
    \/ CallClassifyByFlashPoint

SpecFlash == InitFlash /\ [][NextFlash]_vars

(* evaluate_toxicity on toxicity labels *)

\* the pieces of the level names of at most MaxFragment characters
LevelFragments ==
    UNION {{SubSeq(TOXICITY_LEVELS[k], i, j) :
                i \in 1..Len(TOXICITY_LEVELS[k]),
                j \in 1..Len(TOXICITY_LEVELS[k])} : k \in 1..Len(TOXICITY_LEVELS)}

ToxicityLabels ==
    {None, ""}
        \cup {TOXICITY_LEVELS[k] : k \in 1..Len(TOXICITY_LEVELS)}
        \cup UNION {{fuzzy_mappings[k].variants[v] : v \in 1..Len(fuzzy_mappings[k].variants)} :
                       k \in 1..Len(fuzzy_mappings)}
        \cup {f \in LevelFragments : Len(f) >= 1 /\ Len(f) <= MaxFragment}
        \cup {"Toxique", "toxique", "tres toxique", "Très toxique", "Nocif", "non toxique",
              "corrosif", "Cancerogene (CMR)", "irritant leger", "zzz", "NIVEAU_INVALIDE",
              "inconnu", " ", "---"}

InitTox ==
    /\ pc = "call"
    /\ arg \in [nom : {"Substance"}, toxicite : ToxicityLabels]
    /\ ret = Idle
    /\ PipelineIdle

CallEvaluateToxicity ==
    Return("evaluate_toxicity", evaluate_toxicity(arg))

SpecTox == InitTox /\ [][CallEvaluateToxicity]_vars

(* evaluate_incompatibility on two substances, _calculate_incompatibility_score on levels *)

Categories ==
    {None, "", "acide", "base", "oxydant", "reducteur", "inflammable", "solvant", "cyanure",
     "sulfure", "matiere_organique", "eau", "reactif_hydrophobe", "Acide fort", "BASE",
     "cyanure base", "gaz inerte"}

RiskLevels ==
    {"SEVERE", "CRITIQUE", "ELEVE", "MOYEN", "FAIBLE", "INCONNU", "", "Élevé", "sévère",
     "bas", "modere", "HAUT"}

\* the incompatibility file: empty, a record of the two substances, a record of others
IncompatibilityTables ==
    {<<>>,
     <<Incompatibility("Substance B", "Substance A", "FAIBLE", "Exothermique", "")>>,
     <<Incompatibility("Substance C", "Substance A", "SEVERE", "gaz toxique", "")>>}

InitIncomp ==
    /\ pc = "call"
    /\ arg \in [categorie1 : Categories, categorie2 : Categories,
                incompatibilities_list : IncompatibilityTables, niveau_risque : RiskLevels]
    /\ ret = Idle
    /\ PipelineIdle

CallEvaluateIncompatibility ==
    Return("evaluate_incompatibility",
           evaluate_incompatibility(
               Substance("", "Substance A", NoneNum, None, arg.categorie1),
               Substance("", "Substance B", NoneNum, None, arg.categorie2),
               arg.incompatibilities_list))

CallCalculateIncompatibilityScore ==
    Return("_calculate_incompatibility_score",
           _calculate_incompatibility_score(arg.niveau_risque))

NextIncomp ==
    \/ CallEvaluateIncompatibility
    \/ CallCalculateIncompatibilityScore

SpecIncomp == InitIncomp /\ [][NextIncomp]_vars

(* evaluate_incompatibility on a pair of substances, in both orders *)

PairSubstances ==
    {Substance(cas, nom, NoneNum, None, categorie) :
        cas \in {"", "64-17-5", "1310-73-2"},
        nom \in {"", "Acide X", "Base Y"},
        categorie \in {None, "acide", "base", "cyanure"}}

\* records by name and by CAS number, in either order, alone and in conflict
PairTables ==
    {<<>>,
     <<Incompatibility("Acide X", "Base Y", "FAIBLE", "Exothermique", "")>>,
     <<Incompatibility("Base Y", "Acide X", "SEVERE", "gaz toxique", "")>>,
     <<Incompatibility("1310-73-2", "64-17-5", "MOYEN", "", "")>>,
     <<Incompatibility("Base Y", "Acide X", "SEVERE", "gaz toxique", ""),
       Incompatibility("Acide X", "Base Y", "FAIBLE", "Exothermique", "")>>,
     <<Incompatibility("64-17-5", "1310-73-2", "FAIBLE", "", ""),
       Incompatibility("1310-73-2", "64-17-5", "ELEVE", "", "")>>}

InitOrder ==
    /\ pc = "call"
    /\ arg \in [substance1_data : PairSubstances, substance2_data : PairSubstances,
                incompatibilities_list : PairTables]
    /\ ret = Idle
    /\ PipelineIdle

\* the two calls evaluate_incompatibility(a, b, table) and evaluate_incompatibility(b, a, table)
CallEvaluateIncompatibilityBothOrders ==
    Return("evaluate_incompatibility",
           [forward |-> evaluate_incompatibility(arg.substance1_data, arg.substance2_data,
                                                 arg.incompatibilities_list),
            backward |-> evaluate_incompatibility(arg.substance2_data, arg.substance1_data,
                                                  arg.incompatibilities_list)])

SpecOrder == InitOrder /\ [][CallEvaluateIncompatibilityBothOrders]_vars

(* is_dangerous_reaction on the names of a detected pair *)

\* names of substances of the rules and of others, as a table or a request may write them
WrittenNames ==
    {"Chloroforme", "CHLOROFORME", " chloroforme ", "Chloroformé", "Chloro forme",
     "Eau de Javel", "eau  de javel", "Eau-de-Javel", "Eau de Javel.", "eaudejavel",
     "Ammoniaque", "Acide chlorhydrique", "Acide", "Cyanure", "Ether", "Acide nitrique"}

InitDanger ==
    /\ pc = "call"
    /\ arg \in [substance1 : WrittenNames, substance2 : WrittenNames]
    /\ ret = Idle
    /\ PipelineIdle

CallIsDangerousReaction ==
    Return("is_dangerous_reaction", is_dangerous_reaction(arg.substance1, arg.substance2))

SpecDanger == InitDanger /\ [][CallIsDangerousReaction]_vars

-----------------------------------------------------------------------------
(* Properties *)

\* C1: whenever analyze_risk detects a known dangerous reaction, the returned
\* score_global is exactly 100 and niveau_risque is ELEVE, whatever the
\* environment context (favourable, hot, partially supplied or absent).
C1_DangerousReactionScoresHundred ==
    (pc = "done" /\ result.success /\ dangerous.detected)
        => (result.score_global = Points(100) /\ result.niveau_risque = "ELEVE")

\* C2: for every well-formed request the three category scores reported by
\* analyze_risk lie in [0,100] and the final score_global lies in [0,100].
C2_ScoresWithinRange ==
    (pc = "done" /\ result.success)
        => /\ result.scores_details.inflammabilite \in 0..100
           /\ result.scores_details.toxicite \in 0..100
           /\ result.scores_details.incompatibilites \in 0..100
           /\ result.score_global >= 0
           /\ result.score_global <= Points(100)

\* C3: whenever analyze_risk detects a known dangerous reaction, score_global
\* is at least the reaction's documented minimum of 50, so the result is never
\* FAIBLE, also when temperature or humidity is missing.
C3_DangerousReactionFloor ==
    (pc = "done" /\ result.success /\ dangerous.detected)
        => (result.score_global >= Points(50) /\ result.niveau_risque # "FAIBLE")

C5_ConfiguredWeightsApplied ==
    (pc = "returned" /\ ~arg.is_dangerous_reaction_detected
        /\ arg.individual_scores.inflammabilite = 0
        /\ arg.individual_scores.incompatibilites = 0)
        => LET expected_score == arg.individual_scores.toxicite * CATEGORY_WEIGHTS.toxicite
           IN  /\ ret.value.score_global = expected_score
               /\ ret.value.scores_ponderes.toxicite = expected_score

\* C6: in every result of analyze_risk, niveau_risque is the level of the
\* reported score_global under the 40/70 thresholds: FAIBLE below 40, MOYEN
\* from 40 up to but excluding 70, ELEVE from 70 on.
C6_LevelMatchesScore ==
    pc = "done"
        => result.niveau_risque =
              (IF result.score_global < 800 THEN "FAIBLE"
               ELSE IF result.score_global < 1400 THEN "MOYEN"
               ELSE "ELEVE")

\* a request whose score is exactly 40 is reported MOYEN
C6_Witness ==
    /\ pc = "done"
    /\ result.success
    /\ result.score_global = Points(40)
    /\ result.niveau_risque = "MOYEN"

\* C7: evaluate_inflammability and classify_by_flash_point put every flash
\* point in lower-inclusive bands: below 23 TRES_INFLAMMABLE (90), from 23 to
\* below 60 INFLAMMABLE (60), from 60 to below 100 PEU_INFLAMMABLE (20), 100 and
\* above NON_INFLAMMABLE (0); an absent or unparsable flash point is
\* NON_INFLAMMABLE (0).
C7_FlashPointBands ==
    pc = "returned"
        => LET fp == arg.point_eclair
               \* hundredths of a degree
               band == IF fp.tag # "num" THEN <<"NON_INFLAMMABLE", 0>>
                       ELSE IF fp.v < 2300 THEN <<"TRES_INFLAMMABLE", 90>>
                       ELSE IF fp.v < 6000 THEN <<"INFLAMMABLE", 60>>
                       ELSE IF fp.v < 10000 THEN <<"PEU_INFLAMMABLE", 20>>
                       ELSE <<"NON_INFLAMMABLE", 0>>
           IN  /\ ret.fn = "evaluate_inflammability"
                     => (ret.value.niveau = band[1] /\ ret.value.score = band[2])
               /\ ret.fn = "classify_by_flash_point" => ret.value = band[1]

\* a flash point of exactly 23 degrees is classified INFLAMMABLE
C7_Witness ==
    /\ pc = "returned"
    /\ ret.fn = "classify_by_flash_point"
    /\ arg.point_eclair = Num(2300)
    /\ ret.value = "INFLAMMABLE"

\* C8: for each of the six canonical level names given as the label,
\* evaluate_toxicity returns that same level and its table score
\* (95, 70, 45, 25, 10, 0); the label TOXIQUE yields TOXIQUE with score 70.
C8_CanonicalLabelKeepsLevel ==
    LET table == [TRES_TOXIQUE |-> 95, TOXIQUE |-> 70, NOCIF |-> 45, IRRITANT |-> 25,
                  PEU_TOXIQUE |-> 10, NON_TOXIQUE |-> 0]
    IN  (pc = "returned" /\ arg.toxicite \in DOMAIN table)
            => (ret.value.niveau = arg.toxicite /\ ret.value.score = table[arg.toxicite])

\* C9: when the label is absent, or equals no canonical level name and matches
\* no synonym of the fuzzy table (exactly, or by containing a synonym of at
\* least 3 characters), evaluate_toxicity returns NOCIF with score 45; a mere
\* fragment of a level name is not matched to that level.
C9_UnmatchedLabelDefaults ==
    LET label == arg.toxicite
        normalized == replace(upper(normalize_text(label)), " ", "_")
        canonical == {"TRES_TOXIQUE", "TOXIQUE", "NOCIF", "IRRITANT", "PEU_TOXIQUE",
                      "NON_TOXIQUE"}
        synonym_matches ==
            \E k \in 1..Len(fuzzy_mappings) : \E v \in 1..Len(fuzzy_mappings[k].variants) :
                LET synonym == fuzzy_mappings[k].variants[v]
                IN  \/ normalized = synonym
                    \/ (Len(synonym) >= 3 /\ Contains(synonym, normalized))
        unmatched == \/ label = None
                     \/ label = ""
                     \/ (normalized \notin canonical /\ ~synonym_matches)
    IN  (pc = "returned" /\ unmatched)
            => (ret.value.niveau = "NOCIF" /\ ret.value.score = 45)

\* C10: two named substances with no direct incompatibility record whose
\* categories match a generic category rule are reported incompatible with the
\* level of a matching rule and the score mapped from it: SEVERE/CRITIQUE 90,
\* ELEVE 60, MOYEN 30, FAIBLE 15, an unrecognised level 30; the categories
\* 'acide' and 'base' give ELEVE and 60.
C10_CategoryRuleResult ==
    LET mapped(level) == CASE level \in {"SEVERE", "CRITIQUE"} -> 90
                           [] level = "ELEVE" -> 60
                           [] level = "MOYEN" -> 30
                           [] level = "FAIBLE" -> 15
                           [] OTHER -> 30
        cat1 == arg.categorie1
        cat2 == arg.categorie2
        no_direct_record ==
            \A k \in 1..Len(arg.incompatibilities_list) :
                {arg.incompatibilities_list[k].substance_a,
                 arg.incompatibilities_list[k].substance_b} # {"Substance A", "Substance B"}
        named(cat) == cat # None /\ cat # ""
        \* the rules whose two categories occur in the two given, in either order
        within(rule_category, cat) == Contains(rule_category, lower(normalize_text(cat)))
        rules == {k \in 1..Len(category_rules) :
                     /\ named(cat1) /\ named(cat2)
                     /\ \/ within(category_rules[k][1], cat1) /\ within(category_rules[k][2], cat2)
                        \/ within(category_rules[k][1], cat2) /\ within(category_rules[k][2], cat1)}
    IN  /\ (pc = "returned" /\ ret.fn = "evaluate_incompatibility"
               /\ no_direct_record /\ rules # {})
              => /\ ret.value.incompatible
                 /\ \E k \in rules : ret.value.niveau_risque = category_rules[k][3]
                 /\ ret.value.score = mapped(ret.value.niveau_risque)
                 /\ {cat1, cat2} = {"acide", "base"}
                       => (ret.value.niveau_risque = "ELEVE" /\ ret.value.score = 60)
        /\ (pc = "returned" /\ ret.fn = "_calculate_incompatibility_score"
               /\ arg.niveau_risque \in {"SEVERE", "CRITIQUE", "ELEVE", "MOYEN", "FAIBLE",
                                         "INCONNU"})
              => ret.value = mapped(arg.niveau_risque)

\* the categories 'acide' and 'cyanure' without a direct record: SEVERE, 90
C10_Witness ==
    /\ pc = "returned"
    /\ ret.fn = "evaluate_incompatibility"
    /\ arg.categorie1 = "acide"
    /\ arg.categorie2 = "cyanure"
    /\ arg.incompatibilities_list = <<>>
    /\ ret.value.incompatible
    /\ ret.value.niveau_risque = "SEVERE"
    /\ ret.value.score = 90

\* C11: evaluate_incompatibility(a, b) and evaluate_incompatibility(b, a) return
\* the same incompatible flag, the same risk level and the same score, whether
\* the match comes from a direct record (by name or by CAS) or a category rule.
C11_OrderIndependent ==
    pc = "returned"
        => /\ ret.value.forward.incompatible = ret.value.backward.incompatible
           /\ ret.value.forward.niveau_risque = ret.value.backward.niveau_risque
           /\ ret.value.forward.score = ret.value.backward.score

\* a record found by CAS number, written in the order (b, a)
C11_Witness ==
    /\ pc = "returned"
    /\ arg.substance1_data.cas = "64-17-5"
    /\ arg.substance2_data.cas = "1310-73-2"
    /\ arg.substance1_data.nom = "Acide X"
    /\ arg.substance2_data.nom = "Base Y"
    /\ arg.incompatibilities_list =
          <<Incompatibility("1310-73-2", "64-17-5", "MOYEN", "", "")>>
    /\ ret.value.forward.incompatible
    /\ ret.value.forward.source = "base de donnees"
    /\ ret.value.backward.score = 30

\* C12 as stated: analyze_risk returns a failure result (success false, errors
\* listed, score left at 0) exactly when the request is malformed: not a dict,
\* 'substances' missing, not a list or empty, more than 10 entries, or an entry
\* with fewer than 2 alphanumeric characters after normalization.
C12_FailureExactlyForMalformedRequest ==
    LET data == input_data
        malformed ==
            \/ data.shape.request # "dict"
            \/ data.shape.substances # "list"
            \/ Len(data.substances) = 0
            \/ Len(data.substances) > 10
            \/ \E k \in 1..Len(data.substances) :
                   CountAlnumFrom(normalize_text(data.substances[k]), 1) < 2
        failure == ~result.success /\ result.erreurs # <<>> /\ result.score_global = 0
    IN  pc = "done" => (failure <=> malformed)

\* C12 amended: every malformed request gets a failure result and never leaves
\* validation for the loading of the tables; a well-formed request, lists of 10 valid names included,
\* passes validation and gets a failure result only when the substance table
\* could not be loaded; a failure result lists its errors and leaves the score at 0.
C12_FailureForMalformedRequestOrMissingTable ==
    LET data == input_data
        malformed ==
            \/ data.shape.request # "dict"
            \/ data.shape.substances # "list"
            \/ Len(data.substances) = 0
            \/ Len(data.substances) > 10
            \/ \E k \in 1..Len(data.substances) :
                   CountAlnumFrom(normalize_text(data.substances[k]), 1) < 2
        failure == ~result.success /\ result.erreurs # <<>> /\ result.score_global = 0
        table_missing ==
            result.erreurs = <<"Impossible de charger la base de donnees des substances">>
    IN  /\ pc = "load" => ~malformed
        /\ pc = "done" =>
              /\ malformed => failure /\ ~table_missing
              /\ ~malformed => (failure <=> table_missing)
              /\ ~result.success => failure

\* eleven valid names are rejected
C12_Witness ==
    /\ pc = "done"
    /\ Len(input_data.substances) = 11
    /\ input_data.shape = WellFormed
    /\ ~result.success
    /\ result.erreurs = <<"Trop de substances (maximum 10 par analyse)">>

\* C13: a request whose 'contexte_labo' or 'quantites' is not a mapping (null,
\* a list, a string) ends in a failure result with a non-empty error list:
\* analyze_risk never raises an exception on it.
C13_MalformedMappingGivesFailure ==
    (\/ input_data.shape.contexte_labo \notin {"dict", "missing"}
     \/ input_data.shape.quantites \notin {"dict", "missing"})
        => /\ pc # "raised"
           /\ pc = "done" => ~result.success /\ result.erreurs # <<>>

\* C14: a valid name that the loaded substance table does not hold does not
\* stop the analysis of a request whose mappings are well typed: once the names
\* are resolved the result stays successful and carries a warning, and the
\* returned result evaluates that name as a placeholder of toxicity NOCIF
\* (score 45) and flammability NON_INFLAMMABLE (score 0).
C14_UnknownNameGetsPlaceholder ==
    (pc \in {"evaluate", "pairs", "aggregate", "adjust", "assemble", "done"}
     /\ substances_db # <<>>)
        => \A k \in 1..Len(input_data.substances) :
               LET name == input_data.substances[k]
                   unknown == /\ is_valid_chemical_name(name)
                              /\ find_substance_by_name(normalize_text(name), substances_db) = 0
                   placeholder ==
                       /\ result.success
                       /\ Len(result.avertissements) >= 1
                       /\ pc = "done" =>
                             /\ Len(result.substances_analysees) = Len(input_data.substances)
                             /\ result.substances_analysees[k].toxicite =
                                    [score |-> 45, niveau |-> "NOCIF"]
                             /\ result.substances_analysees[k].inflammabilite =
                                    [score |-> 0, niveau |-> "NON_INFLAMMABLE"]
               IN  placeholder \/ ~unknown

\* "Xyz123" asked together with a substance of the table
C14_Witness ==
    /\ pc = "done"
    /\ input_data.substances = <<"Ether", "Xyz123">>
    /\ result.success
    /\ result.avertissements = <<"Substance non trouvee: Xyz123">>
    /\ result.substances_analysees[2].nom = "xyz123"
    /\ result.substances_analysees[2].toxicite.score = 45

\* C15: calculate_global_risk_score never raises and normalises every category
\* score in scores_details: a missing entry counts as 0, a negative one as 0,
\* one above 100 as 100 and a non-numeric one as 0 (dangerous-reaction flag unset).
C15_ScoresNormalised ==
    pc = "returned"
        => /\ "raised" \notin DOMAIN ret.value
           /\ ~arg.is_dangerous_reaction_detected =>
                 \A key \in {"inflammabilite", "toxicite", "incompatibilites"} :
                     ret.value.scores_details[key] =
                        IF arg.entry_types[key] # "number" THEN 0
                        ELSE IF arg.individual_scores[key] < 0 THEN 0
                        ELSE IF arg.individual_scores[key] > 100 THEN 100
                        ELSE arg.individual_scores[key]

\* C16 as stated: apply_environmental_adjustments returns exactly
\* max(base x temp_mult x humidity_mult x ventilation_mult, floor), with no other
\* change to the value (multipliers as in the tables of the claim; floor 100
\* for a dangerous reaction and 0 otherwise).
C16_ExactProduct ==
    pc = "returned"
        => LET T == arg.temperature_c
               H == arg.humidity_percent
               \* fiftieths, hundredths, twentieths
               temp_mult == IF T < 20 THEN 35 ELSE IF T <= 30 THEN 50
                            ELSE IF T <= 50 THEN 50 + (T - 30) ELSE 70 + 2 * (T - 50)
               humidity_mult == IF H < 20 THEN 95 ELSE IF H <= 40 THEN 98
                                ELSE IF H <= 60 THEN 100 ELSE IF H <= 80 THEN 102 ELSE 105
               ventilation_mult == IF arg.ventilation = "True" THEN 17 ELSE 20
               floor == IF arg.is_dangerous_reaction THEN 100 ELSE 0
               \* the product in units of 1/2,000,000 of a point, base being in twentieths
               product == arg.base_score * temp_mult * humidity_mult * ventilation_mult
               exact == IF product >= floor * 2000000 THEN product ELSE floor * 2000000
           IN  ret.value * 100000 = exact

\* C16 amended: the value returned is max(base x temp_mult x humidity_mult x
\* ventilation_mult, floor) rounded to a nearest whole number of points (either
\* one when the product is halfway between two); the multipliers and the floor
\* are those of the claim, 40, 60 and 80 % of humidity counting in the lower band.
C16_RoundedProduct ==
    pc = "returned"
        => LET T == arg.temperature_c
               H == arg.humidity_percent
               temp_mult == IF T < 20 THEN 35 ELSE IF T <= 30 THEN 50
                            ELSE IF T <= 50 THEN 50 + (T - 30) ELSE 70 + 2 * (T - 50)
               humidity_mult == IF H < 20 THEN 95 ELSE IF H <= 40 THEN 98
                                ELSE IF H <= 60 THEN 100 ELSE IF H <= 80 THEN 102 ELSE 105
               ventilation_mult == IF arg.ventilation = "True" THEN 17 ELSE 20
               floor == IF arg.is_dangerous_reaction THEN 100 ELSE 0
               product == arg.base_score * temp_mult * humidity_mult * ventilation_mult
               exact == IF product >= floor * 2000000 THEN product ELSE floor * 2000000
               points == ret.value \div 20
               gap == points * 2000000 - exact
           IN  /\ ret.value = 20 * points
               /\ 2 * gap <= 2000000
               /\ 2 * gap >= -2000000

\* 38.25 points in a lab at 30 degrees, 60 % humidity, unventilated: 38 is returned
C16_Witness ==
    /\ pc = "returned"
    /\ arg.base_score = 765
    /\ arg.temperature_c = 30
    /\ arg.humidity_percent = 60
    /\ arg.ventilation = "False"
    /\ ~arg.is_dangerous_reaction
    /\ ret.value = Points(38)

\* C17: when the context gives temperature and humidity but no ventilation,
\* the lab counts as ventilated in the environmental stage as it does in the
\* warning stage: the score returned is the one of the same request with
\* ventilation set to true (multiplier 0.85).
C17_OmittedVentilationCountsAsVentilated ==
    (/\ pc = "done"
     /\ result.success
     /\ input_data.contexte_labo.ventilation = None
     /\ input_data.contexte_labo.temperature_c # NoneNum
     /\ input_data.contexte_labo.humidite_percent # NoneNum)
        => result.score_global \in
              apply_environmental_adjustments(global_result.score_global,
                                              input_data.contexte_labo.temperature_c.v,
                                              input_data.contexte_labo.humidite_percent.v,
                                              "True", dangerous.detected)

C19_QuantitiesDoNotScore ==
    (pc = "done" /\ result.success /\ DOMAIN input_data.quantites # {})
        => /\ [scores_details |-> result.scores_details,
               score_global |-> result.score_global,
               niveau_risque |-> result.niveau_risque,
               incompatibilites |-> result.details.incompatibilites,
               recommandations |-> result.recommandations]
                 \in ScoringOf([input_data EXCEPT !.quantites = EmptyMapping],
                               substances_db, incompatibilities_db)
           /\ \A k \in 1..Len(result.substances_analysees) :
                 result.substances_analysees[k].quantite =
                    quantite[found_substances[k]]

\* 250 of ether and 1000 of an unknown product, in a hot and humid lab
C19_Witness ==
    /\ pc = "done"
    /\ result.success
    /\ input_data.substances = <<"Ether", "Xyz123">>
    /\ input_data.contexte_labo.temperature_c = Num(40)
    /\ result.substances_analysees[1].quantite = 250
    /\ result.substances_analysees[2].quantite = 1000
    /\ result.scores_details.toxicite = 45

\* C20: normalize_text and standardize_chemical_name are idempotent: applied to
\* their own result they return it unchanged.
C20_NormalizationIdempotent ==
    pc = "called twice" => ret.value = ret.first

\* "É-(b" is standardized to "e b", and "e b" to itself
C20_Witness ==
    /\ pc = "called twice"
    /\ ret.fn = "standardize_chemical_name"
    /\ arg.text = "É-(b"
    /\ ret.first = "e b"
    /\ ret.value = "e b"

\* C21: every step of a call of analyze_risk goes from a stage to the next one
\* in the fixed order validate, (load the tables,) resolve, evaluate, pairs,
\* aggregate, adjust, assemble, or to the return, so that each stage runs at
\* most once and the call ends by returning; a validation failure returns
\* before any table is loaded or any evaluator runs; and what is returned is a
\* complete result or a failure result.
C21_StagesInOrderThenReturn ==
    [][LET order == {<<"validate", "load">>, <<"validate", "done">>,
                     <<"load", "resolve">>, <<"load", "done">>,
                     <<"resolve", "evaluate">>, <<"resolve", "done">>,
                     <<"evaluate", "pairs">>, <<"pairs", "aggregate">>,
                     <<"aggregate", "adjust">>, <<"adjust", "assemble">>,
                     <<"assemble", "done">>}
        IN  /\ <<pc, pc'>> \in order
            /\ (pc = "validate" /\ pc' = "done")
                  => /\ substances_db' = <<>>
                     /\ incompatibilities_db' = <<>>
                     /\ evaluations' = <<>>
                     /\ ~result'.success
            /\ pc' = "done"
                  => \/ ~result'.success /\ result'.erreurs # <<>>
                     \/ /\ result'.success
                        /\ pc = "assemble"
                        /\ Len(result'.substances_analysees) = Len(input_data.substances)
                        /\ result'.score_global = final_score]_vars

C23_DangerousReactionOverride ==
    (pc = "returned" /\ arg.is_dangerous_reaction_detected)
        => LET i == arg.individual_scores.inflammabilite
               t == arg.individual_scores.toxicite
               raised == IF t > 40 THEN t ELSE 40
               \* twentieths of a point: 0.20 = 4/20, 0.35 = 7/20, 0.45 = 9/20
               sum == 4 * i + 7 * raised + 9 * 50
           IN  /\ ret.value.scores_details =
                      [inflammabilite |-> i, toxicite |-> raised, incompatibilites |-> 50]
               /\ ret.value.score_global = (IF sum > 2000 THEN 2000 ELSE sum)
               /\ ret.value.scores_ponderes =
                      [inflammabilite |-> 4 * i, toxicite |-> 7 * raised,
                       incompatibilites |-> 9 * 50]

\* an incompatibility score of 90 comes down to 50 and a toxicity score of 5
\* goes up to 40: 20 + 14 + 22.5 = 56.5
C23_Witness ==
    /\ pc = "returned"
    /\ arg.is_dangerous_reaction_detected
    /\ arg.individual_scores = [inflammabilite |-> 100, toxicite |-> 5, incompatibilites |-> 90]
    /\ ret.value.scores_details.incompatibilites = 50
    /\ ret.value.scores_details.toxicite = 40
    /\ ret.value.score_global = 1130

\* C24: for N resolved substances, check_multiple_incompatibilities returns
\* one entry for each of the N x (N - 1) / 2 pairs of positions i < j that
\* evaluate_incompatibility finds incompatible, carrying that pair's names and
\* score, and no other entry; the list is sorted by non-increasing score; a
\* single substance gives an empty list.
C24_OneEntryPerIncompatiblePair ==
    pc = "aggregate"
        => LET objects == Objects(found_substances, substances_db, placeholders)
               N == Len(objects)
               pairs == {p \in (1..N) \X (1..N) : p[1] < p[2]}
               verdict(p) == evaluate_incompatibility(objects[p[1]], objects[p[2]],
                                                      incompatibilities_db)
               entries(p) == {k \in 1..Len(detected_incomp) :
                                 detected_incomp[k].i = p[1] /\ detected_incomp[k].j = p[2]}
           IN  /\ Cardinality(pairs) * 2 = N * (N - 1)
               /\ \A k \in 1..Len(detected_incomp) :
                      <<detected_incomp[k].i, detected_incomp[k].j>> \in pairs
               /\ \A p \in pairs :
                      IF verdict(p).incompatible
                      THEN /\ Cardinality(entries(p)) = 1
                           /\ \A k \in entries(p) :
                                  /\ detected_incomp[k].substance1 = objects[p[1]].nom
                                  /\ detected_incomp[k].substance2 = objects[p[2]].nom
                                  /\ detected_incomp[k].score = verdict(p).score
                      ELSE entries(p) = {}
               /\ \A k \in 1..(Len(detected_incomp) - 1) :
                      detected_incomp[k].score >= detected_incomp[k + 1].score
               /\ N = 1 => detected_incomp = <<>>

\* ten substances: 12 of the 45 pairs are incompatible, the severe ones first
C24_Witness ==
    /\ pc = "aggregate"
    /\ Len(found_substances) = 10
    /\ Len(detected_incomp) = 12
    /\ detected_incomp[4].score = 90
    /\ detected_incomp[5].score = 60
    /\ <<detected_incomp[3].i, detected_incomp[3].j>> = <<5, 6>>
    /\ \A k \in 1..12 : <<detected_incomp[k].i, detected_incomp[k].j>> # <<1, 6>>

\* C25: the incompatibility score that analyze_risk gives to
\* calculate_global_risk_score is the largest of the scores of the detected
\* incompatible pairs, not their sum, and it is 0 when no pair is detected or
\* when only one substance is analysed.
C25_LargestPairScoreIsAggregated ==
    pc = "adjust"
        => LET scores == {detected_incomp[k].score : k \in 1..Len(detected_incomp)}
               largest == IF scores = {} THEN 0
                          ELSE CHOOSE m \in scores : \A x \in scores : x <= m
           IN  /\ category_scores.incompatibilites = largest
               /\ global_result =
                      calculate_global_risk_score(
                          [inflammabilite |-> category_scores.inflammabilite,
                           toxicite |-> category_scores.toxicite,
                           incompatibilites |-> largest], dangerous.detected)
               /\ Len(found_substances) = 1
                      => detected_incomp = <<>> /\ category_scores.incompatibilites = 0

\* ten substances with 12 incompatible pairs: the score given is 90, the
\* largest, where the 12 scores add up to 660
C25_Witness ==
    /\ pc = "adjust"
    /\ Len(detected_incomp) = 12
    /\ category_scores.incompatibilites = 90
    /\ detected_incomp[1].score = 90
    /\ detected_incomp[8].score = 60
    /\ detected_incomp[12].score = 15

\* C26: a detected pair sets the dangerous-reaction flag exactly when its two
\* names are the two names of a rule of the dangerous-reaction table, in
\* either order, the names being compared under the normalisation of the other
\* name lookups (standardize_chemical_name: case, accents, whitespace and
\* punctuation ignored); nothing but the names is looked at.
C26_FlagMatchesRuleUnderNormalisation ==
    pc = "returned"
        => LET name1 == standardize_chemical_name(arg.substance1)
               name2 == standardize_chemical_name(arg.substance2)
               rule(k) == <<standardize_chemical_name(DANGEROUS_REACTIONS[k].pair[1]),
                            standardize_chemical_name(DANGEROUS_REACTIONS[k].pair[2])>>
               matches == \E k \in 1..Len(DANGEROUS_REACTIONS) :
                              rule(k) = <<name1, name2>> \/ rule(k) = <<name2, name1>>
           IN  ret.value.is_dangerous <=> matches

\* C27: when a dangerous reaction is detected, the dangerous-reaction record of
\* the result carries the product name, the product formula, the toxicity
\* severity tag and the recommendation of the matched rule, and the rule's
\* recommendation is in the result's recommendation list.
C27_RecordCarriesMatchedRule ==
    (pc = "done" /\ result.success /\ result.details.has_dangerous_reaction)
        => LET record == result.details.dangerous_reaction
               rule == is_dangerous_reaction(record.substances[1], record.substances[2]).info
           IN  /\ record.produit = rule.product
               /\ record.formule = rule.product_formula
               /\ record.toxicite = rule.toxicity_level
               /\ \E k \in 1..Len(record.recommandations) :
                      record.recommandations[k] = rule.recommendation
               /\ \E k \in 1..Len(result.recommandations) :
                      result.recommandations[k] \in {rule.recommendation,
                                                     "ALERTE " \o rule.recommendation}

\* C28: setting the dangerous-reaction flag never lowers the aggregate: for
\* category scores in [0,100], the base score calculate_global_risk_score
\* returns with the flag set is at least the base score it returns for the
\* same category scores with the flag unset.
C28_FlagNeverLowersAggregate ==
    (pc = "returned" /\ arg.is_dangerous_reaction_detected)
        => ret.value.score_global
               >= calculate_global_risk_score(arg.individual_scores, FALSE).score_global

\* C29: each entry of substances_analysees reports the quantity the request
\* gave for its own requested name, 0 when it gave none, also when two
\* requested names resolve to the same substance record: resolving one name
\* never changes the quantity reported for another entry.
C29_EntryReportsItsOwnQuantity ==
    (pc = "done" /\ result.success)
        => /\ Len(result.substances_analysees) = Len(input_data.substances)
           /\ \A k \in 1..Len(result.substances_analysees) :
                 result.substances_analysees[k].quantite =
                    GetQuantity(input_data.quantites, input_data.substances[k])

\* C30: when the categories of two substances satisfy several generic category
\* rules at once, the pair is reported with the most severe risk level among
\* all the matching rules: no matching rule has a level above the reported one.
C30_MostSevereMatchingRule ==
    (pc = "returned" /\ ret.fn = "evaluate_incompatibility"
        /\ ret.value.source = "categories chimiques")
        => LET cat1 == lower(normalize_text(arg.categorie1))
               cat2 == lower(normalize_text(arg.categorie2))
               severity(level) == CASE level = "SEVERE" -> 3
                                    [] level = "ELEVE" -> 2
                                    [] level = "MOYEN" -> 1
                                    [] OTHER -> 0
           IN  \A k \in 1..Len(category_rules) :
                  RuleMatches(k, cat1, cat2)
                     => severity(category_rules[k][3]) <= severity(ret.value.niveau_risque)

====
